---- MODULE Spec2Model ----
(***************************************************************************)
(* The provider runtime of the u-OS Data Hub client: the builder, the      *)
(* worker task (ProviderWorker) that owns the variable table, the command  *)
(* channel of the Provider handles, the write subscribers and the messages *)
(* the worker publishes.  Then the consumer side: the cache of the         *)
(* provider's catalogue kept by ConnectedNatsProvider, its event loop, the *)
(* calls of DataHubProviderConnection and a filtered subscription.         *)
(***************************************************************************)
EXTENDS Integers, Sequences, FiniteSets, TLC

VARIABLES
    pc,                   \* position of the worker task
    state,                \* ProviderWorker.state
    variables,            \* ProviderWorker.variables (BTreeMap<u32, Variable>)
    current_fingerprint,  \* ProviderWorker.current_fingerprint
    write_event_notiers,  \* ProviderWorker.write_event_notiers
    handle,               \* who holds the sender of the command channel
    pending,              \* commands queued in the command channel
    cur,                  \* the input being handled, with the state it met
    published,            \* messages published by the last worker step
    delivered,            \* batches sent to write subscribers by the last step
    reply,                \* result sent back on the one-shot reply channel
    registry_definition,  \* the last definition event the registry published
    definition_events,    \* definition events on their way to the event loop
    cur_fingerprint,      \* ConnectedNatsProviderState.cur_fingerprint
    cur_variable_defs,    \* ConnectedNatsProviderState.cur_variable_defs
    var_mapping,          \* ConnectedNatsProviderState.var_mapping
    variable_events,      \* variables-changed events on their way to the stream
    sub_pc,               \* position of subscribe_variables_with_filter
    filter_list,          \* the keys the subscription was asked for
    filter_set,           \* the ids the stream lets through
    last_fp,              \* the fingerprint the stream saw last
    call,                 \* the call of the connection that is under way
    ret,                  \* what the last call returned
    sent_to_broker,       \* what the last call sent to the broker
    provider_def_evt_stream,  \* definition events waiting for a waiting call
    provider_def_resp     \* the registry's answer to the read of a waiting call

consumer_side ==
    <<registry_definition, definition_events, cur_fingerprint, cur_variable_defs,
      var_mapping, variable_events, sub_pc, filter_list, filter_set, last_fp,
      call, ret, sent_to_broker, provider_def_evt_stream, provider_def_resp>>

provider_side ==
    <<pc, state, variables, current_fingerprint, write_event_notiers,
      handle, pending, cur, published, delivered, reply>>

vars == <<provider_side, consumer_side>>

----------------------------------------------------------------------------
(* Bounds of the model.                                                    *)

MaxId == 1        \* variable ids of the catalogue are 0..MaxId
MaxVars == 2      \* longest list an API call or a message carries
MaxQueue == 1     \* most commands waiting in the command channel
MaxVal == 1       \* payloads of a value are 0..MaxVal; a variable is built with 0

Ids == 0 .. MaxId
\* ids a message or a call may name; MaxId + 1 is never in the table
WireIds == 0 .. (MaxId + 1)

DataTypes == {"Int64", "Boolean"}

\* a key is the sequence of its dot-separated segments
Segments == {"a", "b", "c"}

\* (key, read_only, data type) of the variables the callers build
DefShapes ==
    { [key |-> <<"a">>,      read_only |-> TRUE,  t |-> "Boolean"],
      [key |-> <<"a", "b">>, read_only |-> FALSE, t |-> "Int64"],
      [key |-> <<"c">>,      read_only |-> FALSE, t |-> "Int64"] }

Variable(i, s, v) ==
    [id |-> i, key |-> s.key, read_only |-> s.read_only,
     experimental |-> FALSE, value |-> [t |-> s.t, v |-> v]]

\* the variables handed to add_variables (built with their initial value)
VariablePool == { Variable(i, s, 0) : i \in Ids, s \in DefShapes }

\* lists of length lo..hi over S
ListsOf(S, lo, hi) == UNION { [1 .. n -> S] : n \in lo .. hi }

NoVariables == [i \in {} |-> 0]

----------------------------------------------------------------------------
(* Pure functions.                                                         *)

Min(S) == CHOOSE x \in S : \A y \in S : x <= y

\* iteration order of a BTreeMap: ascending ids
RECURSIVE SortedIds(_)
SortedIds(S) ==
    IF S = {} THEN <<>> ELSE <<Min(S)>> \o SortedIds(S \ {Min(S)})

\* BTreeMap::values()
Values(m) == [n \in 1 .. Cardinality(DOMAIN m) |-> m[SortedIds(DOMAIN m)[n]]]

\* what one variable feeds into the hasher: key, read_only, id, experimental
\* and the discriminant of the value; neither the payload of the value nor
\* the timestamp
HashedFields(var) ==
    <<var.key, var.read_only, var.id, var.experimental, var.value.t>>

\* calc_variables_hash: the hasher is fed the fields of every variable in
\* the order of the map.  The hasher is taken to be free of collisions: a
\* fingerprint is the sequence of what was fed to it.
calc_variables_hash(m) ==
    LET vs == Values(m) IN [n \in 1 .. Len(vs) |-> HashedFields(vs[n])]

\* get_all_parent_paths: every strict dotted prefix of the key
get_all_parent_paths(k) == { SubSeq(k, 1, n) : n \in 1 .. (Len(k) - 1) }

\* validate_variable_key on a key given by its segments
validate_variable_key(k) ==
    IF k = <<>> THEN "UnnamedVariable"
    ELSE IF k[Len(k)] = "" THEN "TrailingDot"
    ELSE IF \E n \in 1 .. Len(k) : k[n] \notin Segments THEN "InvalidCharacters"
    ELSE "Ok"

\* VariableDefinitionT::validate: the data type is set and the key is valid
\* (the access type of the model, read_only, is always set)
validate_definition(d) ==
    IF d.value.t = "UNSPECIFIED" THEN "UnspecifiedProperty"
    ELSE validate_variable_key(d.key)

\* a validator that looks for the parents of a key among the keys before it
ValidateInOneLoop(defs) ==
    LET n == Len(defs)
        Fails(i) == \/ validate_definition(defs[i]) # "Ok"
                    \/ \E j \in 1 .. (i - 1) : defs[j].id = defs[i].id
                    \/ \E j \in 1 .. (i - 1) : defs[j].key = defs[i].key
                    \/ \E p \in get_all_parent_paths(defs[i].key) :
                           \E j \in 1 .. (i - 1) : defs[j].key = p
    IN  IF \E i \in 1 .. n : Fails(i) THEN "Invalid" ELSE "Ok"

\* a validator that looks through the whole list for one rule after the
\* other
ValidateRuleByRule(defs) ==
    LET n == Len(defs)
        Bad(i) == validate_definition(defs[i]) # "Ok"
        DupId(i) == \E j \in 1 .. (i - 1) : defs[j].id = defs[i].id
        DupKey(i) == \E j \in 1 .. (i - 1) : defs[j].key = defs[i].key
        Leaf(i) == \E p \in get_all_parent_paths(defs[i].key) :
                       \E j \in 1 .. n : defs[j].key = p
    IN  IF \E i \in 1 .. n : Bad(i) THEN "InvalidVariableDefinition"
        ELSE IF \E i \in 1 .. n : DupId(i) THEN "DuplicateId"
        ELSE IF \E i \in 1 .. n : DupKey(i) THEN "DuplicatePath"
        ELSE IF \E i \in 1 .. n : Leaf(i) THEN "AddToLeafNode"
        ELSE "Ok"

\* ProviderDefinitionT::validate on a list of definitions: the first error
validate(defs) ==
    LET n == Len(defs)
        Bad(i) == validate_definition(defs[i]) # "Ok"
        DupId(i) == \E j \in 1 .. (i - 1) : defs[j].id = defs[i].id
        DupKey(i) == \E j \in 1 .. (i - 1) : defs[j].key = defs[i].key
        Fails(i) == Bad(i) \/ DupId(i) \/ DupKey(i)
        Leaf(i) == \E p \in get_all_parent_paths(defs[i].key) :
                       \E j \in 1 .. n : defs[j].key = p
    IN  IF \E i \in 1 .. n : Fails(i)
        THEN LET i == Min({ j \in 1 .. n : Fails(j) })
             IN  IF Bad(i) THEN "InvalidVariableDefinition"
                 ELSE IF DupId(i) THEN "DuplicateId"
                 ELSE "DuplicatePath"
        ELSE IF \E i \in 1 .. n : Leaf(i) THEN "AddToLeafNode"
        ELSE "Ok"

\* validate_var_list: the new variables followed by the existing ones
validate_var_list(existing_variables, new_variables) ==
    validate(new_variables \o Values(existing_variables))

\* a check that compares the new variables with each other only
CheckNewListOnly(current_list, variables_to_add) ==
    LET n == Len(variables_to_add)
        DupId(i) == \E j \in 1 .. (i - 1) : variables_to_add[j].id = variables_to_add[i].id
        DupKey(i) == \E j \in 1 .. (i - 1) : variables_to_add[j].key = variables_to_add[i].key
    IN  IF \E i \in 1 .. n : DupId(i) \/ DupKey(i)
        THEN LET i == Min({ j \in 1 .. n : DupId(j) \/ DupKey(j) })
             IN  IF DupId(i) THEN "DuplicatedId" ELSE "DuplicatedKey"
        ELSE "Ok"

\* check_for_duplicates: ids and keys only
check_for_duplicates(current_list, variables_to_add) ==
    LET n == Len(variables_to_add)
        DupId(i) == \E j \in 1 .. (i - 1) : variables_to_add[j].id = variables_to_add[i].id
        DupKey(i) == \E j \in 1 .. (i - 1) : variables_to_add[j].key = variables_to_add[i].key
        new_ids == { variables_to_add[i].id : i \in 1 .. n }
        new_names == { variables_to_add[i].key : i \in 1 .. n }
        cl == Values(current_list)
        Hit(j) == cl[j].id \in new_ids \/ cl[j].key \in new_names
    IN  IF \E i \in 1 .. n : DupId(i) \/ DupKey(i)
        THEN LET i == Min({ j \in 1 .. n : DupId(j) \/ DupKey(j) })
             IN  IF DupId(i) THEN "DuplicatedId" ELSE "DuplicatedKey"
        ELSE IF \E j \in 1 .. Len(cl) : Hit(j)
        THEN LET j == Min({ x \in 1 .. Len(cl) : Hit(x) })
             IN  IF cl[j].id \in new_ids THEN "DuplicatedId" ELSE "DuplicatedKey"
        ELSE "Ok"

\* BTreeMap::extend with (id, variable) pairs: a later pair replaces an earlier
Extend(m, vs) ==
    LET ids == { vs[i].id : i \in 1 .. Len(vs) }
        Last(i) == CHOOSE n \in 1 .. Len(vs) :
                       vs[n].id = i /\ \A k \in (n + 1) .. Len(vs) : vs[k].id # i
    IN  [i \in (DOMAIN m) \cup ids |-> IF i \in ids THEN vs[Last(i)] ELSE m[i]]

----------------------------------------------------------------------------
(* Messages.                                                               *)

Msg(kind, fingerprint, items) ==
    [kind |-> kind, fingerprint |-> fingerprint, items |-> items]

\* build_provider_definition_changed_event(Some(definition))
DefinitionMsg(m, fingerprint) == Msg("definition", fingerprint, Values(m))

\* build_provider_definition_changed_event(None)
UnregisterMsg == Msg("unregister", <<>>, <<>>)

\* build_variables_changed_event: the items are the variables of the map it
\* is given and the fingerprint is the hash of that same map
build_variables_changed_event(m) ==
    Msg("vars_changed", calc_variables_hash(m), Values(m))

\* a response with one item for every id of the request that is in the table
ResponsePerRequestedId(msg, m) ==
    LET all == Values(m)
        known == SelectSeq(msg.ids, LAMBDA i : i \in DOMAIN m)
        items == IF msg.has_ids
                 THEN [n \in 1 .. Len(known) |-> m[known[n]]]
                 ELSE all
    IN  Msg("read_response", calc_variables_hash(m), items)

\* build_read_variables_query_response: the variables named by the request
\* (all of them without an id list), stamped with the hash of the table
build_read_variables_query_response(msg, m) ==
    LET all == Values(m)
        items == IF msg.has_ids
                 THEN SelectSeq(all, LAMBDA var :
                          \E n \in 1 .. Len(msg.ids) : msg.ids[n] = var.id)
                 ELSE all
    IN  Msg("read_response", calc_variables_hash(m), items)

\* Option<VariableValue>::from(VariableValueT): a union without a value
\* converts to nothing
Decodes(value) == value.t # "NONE"

\* values a write command may carry: with a payload, or the empty union
WireValues ==
    { [t |-> ty, v |-> MaxVal] : ty \in DataTypes } \cup { [t |-> "NONE", v |-> 0] }

WireItems == { [id |-> i, value |-> w] : i \in WireIds, w \in WireValues }

\* the fingerprint of another catalogue than the one hashed to fingerprint
StaleFingerprint(fingerprint) ==
    IF fingerprint = calc_variables_hash(NoVariables)
    THEN calc_variables_hash([i \in {0} |-> Variable(0, CHOOSE x \in DefShapes : x.key = <<"c">>, 0)])
    ELSE calc_variables_hash(NoVariables)

----------------------------------------------------------------------------
(* The handlers of the worker, as functions of the state they read.        *)

Snapshot ==
    [variables |-> variables, fingerprint |-> current_fingerprint,
     notifiers |-> write_event_notiers]

\* ack is the answer of the registry that ended the wait of a handshake
NoCur == [kind |-> "none", arg |-> <<>>, pre |-> <<>>, ack |-> "none"]
Cur(kind, arg) == [kind |-> kind, arg |-> arg, pre |-> Snapshot, ack |-> "none"]
NoReply == "none"

\* a filter that lets the items of read-only variables through
WriteItemsOfAnyAccess(m, items) ==
    LET Keep(it) == it.id \in DOMAIN m /\ Decodes(it.value)
        kept == SelectSeq(items, Keep)
    IN  [n \in 1 .. Len(kept) |-> [m[kept[n].id] EXCEPT !.value = kept[n].value]]

\* handle_write, the items that survive the filter: known id, not read-only,
\* a value that converts; each is the stored variable with the new value
WriteItems(m, items) ==
    LET Keep(it) == it.id \in DOMAIN m /\ ~m[it.id].read_only /\ Decodes(it.value)
        kept == SelectSeq(items, Keep)
    IN  [n \in 1 .. Len(kept) |-> [m[kept[n].id] EXCEPT !.value = kept[n].value]]

\* a worker that dispatches whatever fingerprint the command carries
AnyFingerprintMatches(carried, fingerprint) == TRUE

\* handle_write, the check of the carried fingerprint
FingerprintMatches(carried, fingerprint) == carried = fingerprint

\* handle_write: what each entry of the subscriber list is sent, and the
\* list without the entries whose send failed
handle_write(m, fingerprint, notifiers, cmd) ==
    IF ~FingerprintMatches(cmd.fingerprint, fingerprint) \/ ~cmd.has_items
    THEN [notifiers |-> notifiers, delivered |-> [n \in 1 .. Len(notifiers) |-> <<>>]]
    ELSE LET items == WriteItems(m, cmd.items)
             ForSender(n) == SelectSeq(items, LAMBDA var : var.id \in notifiers[n].ids)
             Dead(n) == ForSender(n) # <<>> /\ ~notifiers[n].alive
             Live == { n \in 1 .. Len(notifiers) : ~Dead(n) }
             order == SortedIds(Live)
         IN  [notifiers |-> [n \in 1 .. Len(order) |-> notifiers[order[n]]],
              delivered |-> [n \in 1 .. Len(notifiers) |->
                                IF notifiers[n].alive THEN ForSender(n) ELSE <<>>]]

\* a Subscribe that never looks for an entry already holding the id
SubscribeWithoutConflictCheck(m, notifiers, ids) ==
    LET swept == SelectSeq(notifiers, LAMBDA e : e.alive)
    IN  IF \E n \in 1 .. Len(ids) : ids[n] \notin DOMAIN m
        THEN [notifiers |-> swept, result |-> "VariableNotFound"]
        ELSE [notifiers |-> Append(swept, [ids |-> { ids[n] : n \in 1 .. Len(ids) },
                                             alive |-> TRUE]),
              result |-> "Ok"]

\* a Subscribe that does not sweep the closed entries before it checks
SubscribeWithoutSweep(m, notifiers, ids) ==
    LET Unknown(n) == ids[n] \notin DOMAIN m
        Bound(n) == \E k \in 1 .. Len(notifiers) : ids[n] \in notifiers[k].ids
        Fails(n) == Unknown(n) \/ Bound(n)
    IN  IF \E n \in 1 .. Len(ids) : Fails(n)
        THEN LET n == Min({ k \in 1 .. Len(ids) : Fails(k) })
             IN  [notifiers |-> notifiers,
                  result |-> IF Unknown(n) THEN "VariableNotFound" ELSE "AlreadySubscribed"]
        ELSE [notifiers |-> Append(notifiers, [ids |-> { ids[n] : n \in 1 .. Len(ids) },
                                                 alive |-> TRUE]),
              result |-> "Ok"]

\* a Subscribe that binds the ids in front of the one that fails
SubscribeUpToFailure(m, notifiers, ids) ==
    LET swept == SelectSeq(notifiers, LAMBDA e : e.alive)
        Unknown(n) == ids[n] \notin DOMAIN m
        Bound(n) == \E k \in 1 .. Len(swept) : ids[n] \in swept[k].ids
        Fails(n) == Unknown(n) \/ Bound(n)
    IN  IF \E n \in 1 .. Len(ids) : Fails(n)
        THEN LET n == Min({ k \in 1 .. Len(ids) : Fails(k) })
             IN  [notifiers |-> IF n = 1
                                THEN swept
                                ELSE Append(swept, [ids |-> { ids[k] : k \in 1 .. (n - 1) },
                                                    alive |-> TRUE]),
                  result |-> IF Unknown(n) THEN "VariableNotFound" ELSE "AlreadySubscribed"]
        ELSE [notifiers |-> Append(swept, [ids |-> { ids[n] : n \in 1 .. Len(ids) },
                                             alive |-> TRUE]),
              result |-> "Ok"]

\* create_write_event_notifier: closed entries are swept first; the first
\* id that is unknown or already bound decides the error
create_write_event_notifier(m, notifiers, ids) ==
    LET swept == SelectSeq(notifiers, LAMBDA e : e.alive)
        Unknown(n) == ids[n] \notin DOMAIN m
        Bound(n) == \E k \in 1 .. Len(swept) : ids[n] \in swept[k].ids
        Fails(n) == Unknown(n) \/ Bound(n)
    IN  IF \E n \in 1 .. Len(ids) : Fails(n)
        THEN LET n == Min({ k \in 1 .. Len(ids) : Fails(k) })
             IN  [notifiers |-> swept,
                  result |-> IF Unknown(n) THEN "VariableNotFound" ELSE "AlreadySubscribed"]
        ELSE [notifiers |-> Append(swept, [ids |-> { ids[n] : n \in 1 .. Len(ids) },
                                             alive |-> TRUE]),
              result |-> "Ok"]

\* a check that looks for the ids only and lets a value of any type pass
CheckUpdateIdsOnly(m, items) ==
    IF \E n \in 1 .. Len(items) : items[n].id \notin DOMAIN m
    THEN "VariableNotFound"
    ELSE "Ok"

\* update_variable_values, the check: every id exists and every value has
\* the discriminant of the stored value
CheckUpdate(m, items) ==
    LET Missing(n) == items[n].id \notin DOMAIN m
        Mismatch(n) == ~Missing(n) /\ items[n].value.t # m[items[n].id].value.t
        Fails(n) == Missing(n) \/ Mismatch(n)
    IN  IF \E n \in 1 .. Len(items) : Fails(n)
        THEN LET n == Min({ k \in 1 .. Len(items) : Fails(k) })
             IN  IF Missing(n) THEN "VariableNotFound" ELSE "TypeMismatch"
        ELSE "Ok"

\* update_variable_values, the commit: items are applied in list order
RECURSIVE ApplyUpdates(_, _)
ApplyUpdates(m, items) ==
    IF items = <<>> THEN m
    ELSE LET it == Head(items)
         IN  ApplyUpdates(IF it.id \in DOMAIN m
                            THEN [m EXCEPT ![it.id].value = it.value]
                            ELSE m,
                          Tail(items))

\* publish_updates(Some(changed)): the event built from the changed
\* variables that are in the table
publish_updates(m, changed) ==
    build_variables_changed_event([i \in (DOMAIN m) \cap changed |-> m[i]])

IdsOf(list) == { list[n].id : n \in 1 .. Len(list) }

\* a removal that stops at the first id of the list
RemoveFirstIdOnly(m, ids) ==
    [i \in (DOMAIN m) \ { ids[n] : n \in 1 .. Min({1, Len(ids)}) } |-> m[i]]

\* remove_variables, the table after the removal
RemoveIds(m, ids) ==
    [i \in (DOMAIN m) \ { ids[n] : n \in 1 .. Len(ids) } |-> m[i]]

----------------------------------------------------------------------------
(* Initial state and the builder.                                          *)

\* no consumer is connected
NoConsumer ==
    /\ registry_definition = <<>>
    /\ definition_events = <<>>
    /\ cur_fingerprint = <<>>
    /\ cur_variable_defs = <<>>
    /\ var_mapping = <<>>
    /\ variable_events = <<>>
    /\ sub_pc = "none"
    /\ filter_list = <<>>
    /\ filter_set = <<>>
    /\ last_fp = <<>>
    /\ call = <<>>
    /\ ret = <<>>
    /\ sent_to_broker = <<>>
    /\ provider_def_evt_stream = <<>>
    /\ provider_def_resp = <<>>

\* ProviderBuilder::new
ProviderInit ==
    /\ pc = "builder"
    /\ state = "Connecting"
    /\ variables = NoVariables
    /\ current_fingerprint = calc_variables_hash(NoVariables)
    /\ write_event_notiers = <<>>
    /\ handle = "new"
    /\ pending = 0
    /\ cur = NoCur
    /\ published = <<>>
    /\ delivered = <<>>
    /\ reply = NoReply

\* ProviderBuilder::new, before any consumer connects
Init ==
    /\ ProviderInit
    /\ NoConsumer

\* ProviderBuilder::add_variables
BuilderAddVariables ==
    /\ pc = "builder"
    /\ \E vs \in ListsOf(VariablePool, 1, MaxVars) :
          LET result == validate_var_list(variables, vs)
          IN  /\ variables' = IF result = "Ok" THEN Extend(variables, vs) ELSE variables
              /\ cur' = Cur("builder_add", vs)
              /\ reply' = result
    /\ UNCHANGED <<consumer_side, pc, state, current_fingerprint, write_event_notiers, handle,
                   pending, published, delivered>>

\* ProviderBuilder::register_with_existing_connection, ProviderWorker::new:
\* the fingerprint is computed and the worker task is spawned
Register ==
    /\ pc = "builder"
    /\ pc' = "loop"
    /\ current_fingerprint' = calc_variables_hash(variables)
    /\ \E connected \in BOOLEAN :
          state' = IF connected THEN "Registering" ELSE "Connecting"
    /\ cur' = NoCur
    /\ reply' = NoReply
    /\ UNCHANGED <<consumer_side, variables, write_event_notiers, handle, pending, published,
                   delivered>>

----------------------------------------------------------------------------
(* The worker task.                                                        *)

\* Receiver::is_closed: every sender is gone, whatever is still queued
is_closed == handle = "dropped"

\* ProviderWorker::run, the head of the loop
RunLoop ==
    /\ pc = "loop"
    /\ pc' = IF is_closed THEN "done" ELSE "select"
    /\ cur' = NoCur
    /\ reply' = NoReply
    /\ delivered' = <<>>
    /\ published' = IF is_closed THEN published ELSE <<>>
    /\ UNCHANGED <<consumer_side, state, variables, current_fingerprint, write_event_notiers,
                   handle, pending>>

NatsEvents == {"Connected", "Disconnected", "LameDuckMode", "RecvError"}

\* a worker that takes every event but Connected for a disconnect
DisconnectOnAnyEvent(st, msg) ==
    IF msg = "Connected" THEN "Registering" ELSE "Connecting"

\* handle_nats_event, the state it leaves the worker in
handle_nats_event(st, msg) ==
    CASE msg = "Connected" -> "Registering"
      [] msg = "Disconnected" -> "Connecting"
      [] OTHER -> st

\* a broker event wins the select; in Registering it cancels the handshake
NatsEvent ==
    /\ pc = "select" \/ (pc = "ack" /\ cur.kind = "registering")
    /\ \E msg \in NatsEvents :
          /\ state' = handle_nats_event(state, msg)
          /\ cur' = Cur("nats_event", msg)
    /\ pc' = "loop"
    /\ published' = <<>>
    /\ delivered' = <<>>
    /\ reply' = NoReply
    /\ UNCHANGED <<consumer_side, variables, current_fingerprint, write_event_notiers, handle,
                   pending>>

\* update_definition up to its wait: the fingerprint is recomputed, then the
\* registry subject is subscribed and the catalogue published; either of the
\* two may fail
SendOutcomes == {"sent", "subscribe_failed", "publish_failed"}

\* a worker that takes every end of the handshake for a success
FinishAsIfAcknowledged(kind, ok, m, added) ==
    /\ pc' = "loop"
    /\ state' = IF kind = "registering" THEN "Running" ELSE state
    /\ published' = IF kind = "add" THEN <<publish_updates(m, added)>> ELSE <<>>
    /\ reply' = IF kind \in {"add", "remove"} THEN "Ok" ELSE NoReply

\* what follows the end of update_definition, by the command that called it
FinishUpdateDefinition(kind, ok, m, added) ==
    CASE kind \in {"registering", "register"} ->
            /\ pc' = IF ok THEN "loop" ELSE "crashed"
            /\ state' = IF ok /\ kind = "registering" THEN "Running" ELSE state
            /\ published' = <<>>
            /\ reply' = NoReply
      [] kind = "add" ->
            /\ pc' = "loop"
            /\ state' = state
            /\ IF ok
               THEN \E pub_ok \in BOOLEAN :
                       /\ published' = IF pub_ok
                                       THEN <<publish_updates(m, added)>>
                                       ELSE <<>>
                       /\ reply' = IF pub_ok THEN "Ok" ELSE "NatsError"
               ELSE /\ published' = <<>>
                    /\ reply' = "UpdateProviderDefinition"
      [] kind = "remove" ->
            /\ pc' = "loop"
            /\ state' = state
            /\ published' = <<>>
            /\ reply' = IF ok THEN "Ok" ELSE "UpdateProviderDefinition"

\* update_definition(true) called with the table new_variables
update_definition(kind, arg, new_variables, added) ==
    /\ variables' = new_variables
    /\ current_fingerprint' = calc_variables_hash(new_variables)
    /\ cur' = Cur(kind, arg)
    /\ delivered' = <<>>
    /\ \E outcome \in SendOutcomes :
          IF outcome = "sent"
          THEN /\ pc' = "ack"
               /\ published' = <<DefinitionMsg(new_variables, current_fingerprint')>>
               /\ reply' = NoReply
               /\ state' = state
          ELSE FinishUpdateDefinition(kind, FALSE, new_variables, added)

\* run_state_registering
RunStateRegistering ==
    /\ pc = "select"
    /\ state = "Registering"
    /\ update_definition("registering", <<>>, variables, {})
    /\ UNCHANGED <<consumer_side, write_event_notiers, handle, pending>>

AckOutcomes == {"Ok", "Invalid", "NoDefinition", "Unparsable"}

\* update_definition, the wait: an event on the registry subject ends it
ReceiveAck ==
    /\ pc = "ack"
    /\ \E outcome \in AckOutcomes :
          /\ FinishUpdateDefinition(cur.kind, outcome = "Ok", variables, IdsOf(cur.arg))
          /\ cur' = [cur EXCEPT !.ack = outcome]
    /\ delivered' = <<>>
    /\ UNCHANGED <<consumer_side, variables, current_fingerprint, write_event_notiers, handle,
                   pending>>

RegistryStates == {"Running", "Stopping", "Unspecified"}

\* a wait that a registry state event ends like an Ok answer of the registry
RegistryUpEndsWait ==
    /\ pc = "ack"
    /\ FinishUpdateDefinition(cur.kind, TRUE, variables, IdsOf(cur.arg))
    /\ delivered' = <<>>
    /\ UNCHANGED <<consumer_side, variables, current_fingerprint, write_event_notiers, handle,
                   pending, cur>>

\* update_definition, the wait: a registry state event republishes the payload
RegistryUpWhileWaiting ==
    /\ pc = "ack"
    /\ \E st \in RegistryStates, pub_ok \in BOOLEAN :
          IF pub_ok
          THEN /\ published' = <<DefinitionMsg(variables, current_fingerprint)>>
               /\ UNCHANGED <<consumer_side, pc, state, reply>>
          ELSE FinishUpdateDefinition(cur.kind, FALSE, variables, IdsOf(cur.arg))
    /\ delivered' = <<>>
    /\ UNCHANGED <<consumer_side, variables, current_fingerprint, write_event_notiers, handle,
                   pending, cur>>

Running == pc = "select" /\ state = "Running"

\* command_channel.recv() yields a queued command
RecvCommand == pending > 0 /\ pending' = pending - 1

\* add_variables
AddVariables ==
    /\ Running
    /\ RecvCommand
    /\ \E vs \in ListsOf(VariablePool, 1, MaxVars) :
          LET result == check_for_duplicates(variables, vs)
          IN  IF result # "Ok"
              THEN /\ reply' = result
                   /\ cur' = Cur("add", vs)
                   /\ pc' = "loop"
                   /\ published' = <<>>
                   /\ delivered' = <<>>
                   /\ UNCHANGED <<consumer_side, state, variables, current_fingerprint>>
              ELSE update_definition("add", vs, Extend(variables, vs), IdsOf(vs))
    /\ UNCHANGED <<consumer_side, write_event_notiers, handle>>

\* remove_variables
RemoveVariables ==
    /\ Running
    /\ RecvCommand
    /\ \E ids \in ListsOf(WireIds, 1, MaxVars) :
          update_definition("remove", [n \in 1 .. Len(ids) |-> [id |-> ids[n]]],
                            RemoveIds(variables, ids), {})
    /\ UNCHANGED <<consumer_side, write_event_notiers, handle>>

\* values an update may carry
UpdateItems ==
    { [id |-> i, value |-> [t |-> ty, v |-> v]] :
          i \in WireIds, ty \in DataTypes, v \in 0 .. MaxVal }

\* an update that commits item by item up to the first failing one
UpdateUntilFailure(m, items) ==
    LET result == CheckUpdate(m, items)
        Fails(n) == \/ items[n].id \notin DOMAIN m
                    \/ items[n].value.t # m[items[n].id].value.t
        good == IF result = "Ok" THEN Len(items)
                ELSE Min({ k \in 1 .. Len(items) : Fails(k) }) - 1
        new_variables == ApplyUpdates(m, SubSeq(items, 1, good))
    IN  [variables |-> new_variables, result |-> result,
         event |-> publish_updates(new_variables, IdsOf(items))]

\* update_variable_values: check every item, then commit, then build the event
update_variable_values(m, items) ==
    LET result == CheckUpdate(m, items)
        new_variables == IF result = "Ok" THEN ApplyUpdates(m, items) ELSE m
    IN  [variables |-> new_variables, result |-> result,
         event |-> publish_updates(new_variables, IdsOf(items))]

UpdateValues ==
    /\ Running
    /\ RecvCommand
    /\ \E items \in ListsOf(UpdateItems, 1, MaxVars) :
          LET r == update_variable_values(variables, items)
          IN  /\ variables' = r.variables
              /\ cur' = Cur("update", items)
              /\ IF r.result # "Ok"
                 THEN published' = <<>> /\ reply' = r.result
                 ELSE \E pub_ok \in BOOLEAN :
                         /\ published' = IF pub_ok THEN <<r.event>> ELSE <<>>
                         /\ reply' = IF pub_ok THEN "Ok" ELSE "NatsError"
    /\ pc' = "loop"
    /\ delivered' = <<>>
    /\ UNCHANGED <<consumer_side, state, current_fingerprint, write_event_notiers, handle>>

\* create_write_event_notifier
Subscribe ==
    /\ Running
    /\ RecvCommand
    /\ \E ids \in ListsOf(WireIds, 1, MaxVars) :
          LET r == create_write_event_notifier(variables, write_event_notiers, ids)
          IN  /\ write_event_notiers' = r.notifiers
              /\ reply' = r.result
              /\ cur' = Cur("subscribe", ids)
    /\ pc' = "loop"
    /\ published' = <<>>
    /\ delivered' = <<>>
    /\ UNCHANGED <<consumer_side, state, variables, current_fingerprint, handle>>

\* command_channel.recv() yields None: Unregister, send_empty_definition
Unregister ==
    /\ Running
    /\ is_closed
    /\ pending = 0
    /\ \E pub_ok \in BOOLEAN :
          /\ pc' = IF pub_ok THEN "loop" ELSE "crashed"
          /\ published' = IF pub_ok THEN <<UnregisterMsg>> ELSE <<>>
    /\ cur' = Cur("unregister", <<>>)
    /\ delivered' = <<>>
    /\ reply' = NoReply
    /\ UNCHANGED <<consumer_side, state, variables, current_fingerprint, write_event_notiers,
                   handle, pending>>

ReadRequests ==
    { [has_ids |-> FALSE, ids |-> <<>>] } \cup
    { [has_ids |-> TRUE, ids |-> ids] : ids \in ListsOf(WireIds, 0, MaxVars) }

\* handle_variable_read_query: nothing is published when the payload is no
\* request or the message names no reply subject; a failed publish is ignored
QueryOutcomes == {"replied", "undecodable", "no_reply_subject", "publish_failed"}

Query ==
    /\ Running
    /\ \E msg \in ReadRequests, outcome \in QueryOutcomes :
          /\ published' = IF outcome = "replied"
                          THEN <<build_read_variables_query_response(msg, variables)>>
                          ELSE <<>>
          /\ cur' = Cur("query", [msg |-> msg, outcome |-> outcome])
    /\ pc' = "loop"
    /\ delivered' = <<>>
    /\ reply' = NoReply
    /\ UNCHANGED <<consumer_side, state, variables, current_fingerprint, write_event_notiers,
                   handle, pending>>

\* the write commands that may arrive: the current or another fingerprint,
\* no item list or a list of items
WriteCommands ==
    { [fingerprint |-> f, has_items |-> h, items |-> items] :
          f \in {current_fingerprint, StaleFingerprint(current_fingerprint)},
          h \in {TRUE},
          items \in ListsOf(WireItems, 0, MaxVars) } \cup
    { [fingerprint |-> current_fingerprint, has_items |-> FALSE, items |-> <<>>] }

\* handle_write; a payload that is no WriteVariablesCommand is ignored
HandleWrite ==
    /\ Running
    /\ \/ \E cmd \in WriteCommands :
             LET r == handle_write(variables, current_fingerprint, write_event_notiers, cmd)
             IN  /\ write_event_notiers' = r.notifiers
                 /\ delivered' = r.delivered
                 /\ cur' = Cur("write", cmd)
       \/ /\ cur' = Cur("write_undecodable", <<>>)
          /\ delivered' = <<>>
          /\ UNCHANGED write_event_notiers
    /\ pc' = "loop"
    /\ published' = <<>>
    /\ reply' = NoReply
    /\ UNCHANGED <<consumer_side, state, variables, current_fingerprint, handle, pending>>

\* registry_up.next() in the Running select: ProviderCommand::Register
RegistryUp ==
    /\ Running
    /\ \E st \in RegistryStates :
          update_definition("register", st, variables, {})
    /\ UNCHANGED <<consumer_side, write_event_notiers, handle, pending>>

----------------------------------------------------------------------------
(* The users of the provider.                                              *)

\* The worker yields to the other tasks where it awaits: in a select or in
\* the wait of a handshake.  A step of a user between two awaits of the
\* worker is the same step taken at the await before or after.
Awaiting == pc \in {"select", "ack"}

\* ProviderWorker::new with wait_for_success: the sender is kept until the
\* worker was seen Running, then it is handed out in a Provider
ReturnProvider ==
    /\ Awaiting
    /\ handle = "new"
    /\ state = "Running"
    /\ handle' = "provider"
    /\ UNCHANGED <<consumer_side, pc, state, variables, current_fingerprint, write_event_notiers,
                   pending, cur, published, delivered, reply>>

\* a Provider handle sends a command
ApiSend ==
    /\ Awaiting
    /\ handle = "provider"
    /\ pending < MaxQueue
    /\ pending' = pending + 1
    /\ UNCHANGED <<consumer_side, pc, state, variables, current_fingerprint, write_event_notiers,
                   handle, cur, published, delivered, reply>>

\* the last Provider handle is dropped, or ProviderWorker::new gives up
\* waiting and drops the sender
DropHandles ==
    /\ Awaiting
    /\ handle # "dropped"
    /\ handle' = "dropped"
    /\ UNCHANGED <<consumer_side, pc, state, variables, current_fingerprint, write_event_notiers,
                   pending, cur, published, delivered, reply>>

\* a caller that takes the answer it was left without for an answer
CallResultUnmapped(sent, answer) == answer

\* Provider::add_variables, remove_variables, update_variable_states and
\* subscribe_to_write_command, what the caller gets: a send that fails and
\* an answer channel that was dropped both become ProviderThreadCrashed
call_result(sent, answer) ==
    IF ~sent THEN "ProviderThreadCrashed"
    ELSE IF answer = "dropped" THEN "ProviderThreadCrashed"
    ELSE answer

\* The task of the worker ended in a panic: the receiver of the command
\* channel is dropped with the worker, and with it every queued command and
\* the sender of its answer.  A call that waits for such an answer returns.
QueuedCallEnds ==
    /\ pc = "crashed"
    /\ pending > 0
    /\ pending' = pending - 1
    /\ reply' = call_result(TRUE, "dropped")
    /\ UNCHANGED <<consumer_side, pc, state, variables, current_fingerprint, write_event_notiers,
                   handle, cur, published, delivered>>

\* a call made after the task of the worker ended in a panic: the send fails
LateCall ==
    /\ pc = "crashed"
    /\ handle = "provider"
    /\ reply' = call_result(FALSE, "dropped")
    /\ UNCHANGED <<consumer_side, pc, state, variables, current_fingerprint, write_event_notiers,
                   handle, pending, cur, published, delivered>>

\* the receiving end of a write subscription is dropped
SinkDrop ==
    /\ Awaiting
    /\ \E n \in 1 .. Len(write_event_notiers) :
          /\ write_event_notiers[n].alive
          /\ write_event_notiers' = [write_event_notiers EXCEPT ![n].alive = FALSE]
    /\ UNCHANGED <<consumer_side, pc, state, variables, current_fingerprint, handle, pending,
                   cur, published, delivered, reply>>

Next ==
    \/ BuilderAddVariables
    \/ Register
    \/ RunLoop
    \/ NatsEvent
    \/ RunStateRegistering
    \/ ReceiveAck
    \/ RegistryUpWhileWaiting
    \/ AddVariables
    \/ RemoveVariables
    \/ UpdateValues
    \/ Subscribe
    \/ Unregister
    \/ Query
    \/ HandleWrite
    \/ RegistryUp
    \/ ReturnProvider
    \/ ApiSend
    \/ QueuedCallEnds
    \/ LateCall
    \/ DropHandles
    \/ SinkDrop

Spec == Init /\ [][Next]_vars

----------------------------------------------------------------------------
(* The consumer side: what the registry and the provider send.             *)

MaxEvents == 1    \* most events waiting on one subscription of the consumer

\* Option<T>
None == <<>>
Some(x) == <<x>>

\* the variables of the provider the consumer connects to: a read-only
\* Boolean and a read-write Int64
CatalogueShapes == { s \in DefShapes : Len(s.key) = 1 }

\* the keys a caller may name
Keys == { s.key : s \in CatalogueShapes }

\* the catalogues the provider can have registered: tables of the provider
Catalogues ==
    { m \in UNION { [S -> { v \in VariablePool : v.key \in Keys }] : S \in SUBSET Ids } :
         /\ \A i \in DOMAIN m : m[i].id = i
         /\ \A i, j \in DOMAIN m : i # j => m[i].key # m[j].key }

\* ProviderDefinitionChangedEvent as the stream of the subscription hands it
\* on: the definition the provider sent to the registry, with the state the
\* registry gave it
DefinitionEvent(st, m) ==
    LET d == DefinitionMsg(m, calc_variables_hash(m))
    IN  [decodes |-> TRUE,
         provider_definition |->
             Some([state |-> st, fingerprint |-> d.fingerprint,
                   variable_definitions |-> d.items])]

\* the event without a definition: the provider was removed
RemovedEvent == [decodes |-> TRUE, provider_definition |-> None]

\* a payload that is no ProviderDefinitionChangedEvent
UndecodableEvent == [decodes |-> FALSE, provider_definition |-> None]

RegistryEvents ==
    { DefinitionEvent(st, m) : st \in {"Ok", "Invalid"}, m \in Catalogues }
        \cup {RemovedEvent}

\* the registry holds a definition of the provider in state Ok
Registered ==
    /\ registry_definition.provider_definition # None
    /\ registry_definition.provider_definition[1].state = "Ok"

\* collect() of (id, definition) pairs into a map
variable_defs_from_provider_def(variable_definitions) ==
    Extend(NoVariables, variable_definitions)

\* the table of the provider the registry holds
RegisteredCatalogue ==
    variable_defs_from_provider_def(
        registry_definition.provider_definition[1].variable_definitions)

\* A key that is in no catalogue and whose hash is the hash of the
\* catalogue key "c": the hash has 64 bits and the key strings are longer,
\* so some keys share a hash.
CollidingKey == <<"x">>

\* VariableKey::from: the hash of the key string, the only thing the
\* look-ups compare.  The keys of the catalogues have hashes of their own.
key_hash(k) == <<"FxHasher", IF k = CollidingKey THEN <<"c">> ELSE k>>

\* key_mapping_from_variable_defs
key_mapping_from_variable_defs(var_defs) ==
    [h \in { key_hash(var_defs[i].key) : i \in DOMAIN var_defs } |->
        CHOOSE i \in DOMAIN var_defs : key_hash(var_defs[i].key) = h]

\* ConnectedNatsProvider::new: the definition read from the registry is in
\* state Ok and fills the cache; then the event loop is started.  catalogues
\* are the tables the provider may have registered.
ConnectedTo(catalogues) ==
    /\ ProviderInit
    /\ \E m \in catalogues :
          /\ registry_definition = DefinitionEvent("Ok", m)
          /\ cur_fingerprint =
                 Some(registry_definition.provider_definition[1].fingerprint)
          /\ cur_variable_defs = RegisteredCatalogue
          /\ var_mapping = key_mapping_from_variable_defs(cur_variable_defs)
    /\ definition_events = <<>>
    /\ variable_events = <<>>
    /\ sub_pc = "none"
    /\ filter_list = None
    /\ filter_set = None
    /\ last_fp = None
    /\ call = <<>>
    /\ ret = <<>>
    /\ sent_to_broker = <<>>
    /\ provider_def_evt_stream = <<>>
    /\ provider_def_resp = <<>>

ConsumerInit == ConnectedTo(Catalogues)

\* the calls that wait for the registry
WaitingCalls == {"wait_for_provider", "wait_until_variable_keys_are_available"}

\* a subscription that is made after the read was answered
SubscribedAfterRead ==
    /\ call # None
    /\ call[1].op \in WaitingCalls
    /\ call[1].at = "events"

\* subscribe_provider_definition_internal: a waiting call subscribes to the
\* definition events as its first step and holds the subscription until it
\* returns
Subscribed == call # None /\ call[1].op \in WaitingCalls

\* the broker hands a payload to the subscription of a waiting call
Deliver(e) ==
    IF Subscribed THEN Append(provider_def_evt_stream, e)
    ELSE provider_def_evt_stream

\* the registry publishes a definition-changed event for the provider, one
\* of events; the broker hands it to every subscription there is
RegistryPublishesOneOf(events) ==
    /\ Len(definition_events) < MaxEvents
    /\ Len(provider_def_evt_stream) < MaxEvents
    /\ \E e \in events :
          /\ registry_definition' = e
          /\ definition_events' = Append(definition_events, e)
          /\ provider_def_evt_stream' = Deliver(e)
    /\ UNCHANGED <<provider_side, provider_def_resp, cur_fingerprint, cur_variable_defs, var_mapping,
                   variable_events, sub_pc, filter_list, filter_set, last_fp,
                   call, ret, sent_to_broker>>

RegistryPublishes == RegistryPublishesOneOf(RegistryEvents)

\* a payload on the subject of the definition events fails to decode
GarbledDefinition ==
    /\ Len(definition_events) < MaxEvents
    /\ Len(provider_def_evt_stream) < MaxEvents
    /\ definition_events' = Append(definition_events, UndecodableEvent)
    /\ provider_def_evt_stream' = Deliver(UndecodableEvent)
    /\ UNCHANGED <<provider_side, provider_def_resp, registry_definition, cur_fingerprint,
                   cur_variable_defs, var_mapping, variable_events, sub_pc,
                   filter_list, filter_set, last_fp, call, ret,
                   sent_to_broker>>

\* The registered provider publishes a variables-changed event for some of
\* its variables.  catalogue is the table it was published under.
ProviderPublishes ==
    /\ Registered
    /\ sub_pc = "active"
    /\ Len(variable_events) < MaxEvents
    /\ \E S \in (SUBSET DOMAIN RegisteredCatalogue) \ {{}} :
          variable_events' =
              Append(variable_events,
                     [decodes |-> TRUE,
                      msg |-> publish_updates(RegisteredCatalogue, S),
                      catalogue |-> RegisteredCatalogue])
    /\ UNCHANGED <<provider_side, provider_def_evt_stream, provider_def_resp, registry_definition, definition_events,
                   cur_fingerprint, cur_variable_defs, var_mapping, sub_pc,
                   filter_list, filter_set, last_fp, call, ret,
                   sent_to_broker>>

----------------------------------------------------------------------------
(* The event loop of the cache.                                            *)

\* an event loop that keeps the mapping of the keys it had
ApplyWithoutMapping(event) ==
    IF event.decodes /\ event.provider_definition # None
          /\ event.provider_definition[1].state = "Ok"
    THEN [cur_fingerprint |-> Some(event.provider_definition[1].fingerprint),
          cur_variable_defs |-> variable_defs_from_provider_def(
                                    event.provider_definition[1].variable_definitions),
          var_mapping |-> var_mapping]
    ELSE [cur_fingerprint |-> None,
          cur_variable_defs |-> cur_variable_defs,
          var_mapping |-> var_mapping]

\* an event loop that takes a payload it cannot decode for the removal of
\* the provider
ApplyUndecodableAsRemoved(event) ==
    IF event.decodes /\ event.provider_definition # None
          /\ event.provider_definition[1].state = "Ok"
    THEN LET defs == variable_defs_from_provider_def(
                         event.provider_definition[1].variable_definitions)
         IN  [cur_fingerprint |-> Some(event.provider_definition[1].fingerprint),
              cur_variable_defs |-> defs,
              var_mapping |-> key_mapping_from_variable_defs(defs)]
    ELSE [cur_fingerprint |-> None,
          cur_variable_defs |-> cur_variable_defs,
          var_mapping |-> var_mapping]

\* internal_event_loop, the cache after one event
ApplyDefinitionEvent(event) ==
    IF ~event.decodes
    THEN [cur_fingerprint |-> cur_fingerprint,
          cur_variable_defs |-> cur_variable_defs,
          var_mapping |-> var_mapping]
    ELSE IF event.provider_definition # None
              /\ event.provider_definition[1].state = "Ok"
    THEN LET defs == variable_defs_from_provider_def(
                         event.provider_definition[1].variable_definitions)
         IN  [cur_fingerprint |-> Some(event.provider_definition[1].fingerprint),
              cur_variable_defs |-> defs,
              var_mapping |-> key_mapping_from_variable_defs(defs)]
    ELSE [cur_fingerprint |-> None,
          cur_variable_defs |-> cur_variable_defs,
          var_mapping |-> var_mapping]

\* internal_event_loop: the next event of the stream, applied under the
\* write lock
internal_event_loop ==
    /\ definition_events # <<>>
    /\ LET new == ApplyDefinitionEvent(Head(definition_events))
       IN  /\ cur_fingerprint' = new.cur_fingerprint
           /\ cur_variable_defs' = new.cur_variable_defs
           /\ var_mapping' = new.var_mapping
    /\ definition_events' = Tail(definition_events)
    /\ UNCHANGED <<provider_side, provider_def_evt_stream, provider_def_resp, registry_definition, variable_events, sub_pc,
                   filter_list, filter_set, last_fp, call, ret,
                   sent_to_broker>>

----------------------------------------------------------------------------
(* subscribe_variables_with_filter and the stream it returns.              *)

\* the filters a caller asks for: none, or a list of keys
FilterLists == {None} \cup { Some(ks) : ks \in (SUBSET Keys) \ {{}} }

\* build_filter_set: the ids of the keys the mapping knows
build_filter_set(keys, mapping) ==
    { mapping[key_hash(k)] : k \in { x \in keys : key_hash(x) \in DOMAIN mapping } }

\* a stream that lets every item through
ProcessUnfiltered(set, var_changed_evt) ==
    IF ~var_changed_evt.decodes THEN None
    ELSE Some(SelectSeq(var_changed_evt.msg.items, LAMBDA v : Decodes(v.value)))

\* process_var_changed_evt: nothing for an event that failed to decode,
\* else the items the filter set lets through and whose value converts
process_var_changed_evt(set, var_changed_evt) ==
    IF ~var_changed_evt.decodes THEN None
    ELSE LET Keep(v) == (set # None => v.id \in set[1]) /\ Decodes(v.value)
         IN  Some(SelectSeq(var_changed_evt.msg.items, Keep))

\* subscribe_variables_with_filter, first read lock: the fingerprint.  The
\* stream and the calls below share nothing but the cache, which neither
\* writes: a run has the one or the others.
SubscribeGetFingerprint ==
    /\ sub_pc = "none"
    /\ call = None
    /\ ret = None
    /\ \E f \in FilterLists : filter_list' = f
    /\ last_fp' = cur_fingerprint
    /\ sub_pc' = "fingerprint_read"
    /\ UNCHANGED <<provider_side, provider_def_evt_stream, provider_def_resp, registry_definition, definition_events,
                   cur_fingerprint, cur_variable_defs, var_mapping,
                   variable_events, filter_set, call, ret, sent_to_broker>>

\* subscribe_variables_with_filter, second read lock: the first filter set;
\* then the subscription to the events of the provider
SubscribeBuildFilterSet ==
    /\ sub_pc = "fingerprint_read"
    /\ filter_set' = IF filter_list = None THEN None
                     ELSE Some(build_filter_set(filter_list[1], var_mapping))
    /\ sub_pc' = "active"
    /\ UNCHANGED <<provider_side, provider_def_evt_stream, provider_def_resp, registry_definition, definition_events,
                   cur_fingerprint, cur_variable_defs, var_mapping,
                   variable_events, filter_list, last_fp, call, ret,
                   sent_to_broker>>

\* a payload on the subject of the variable events fails to decode
GarbledVariables ==
    /\ sub_pc = "active"
    /\ Len(variable_events) < MaxEvents
    /\ variable_events' =
           Append(variable_events,
                  [decodes |-> FALSE, msg |-> Msg("vars_changed", <<>>, <<>>),
                   catalogue |-> NoVariables])
    /\ UNCHANGED <<provider_side, provider_def_evt_stream, provider_def_resp, registry_definition, definition_events,
                   cur_fingerprint, cur_variable_defs, var_mapping, sub_pc,
                   filter_list, filter_set, last_fp, call, ret,
                   sent_to_broker>>

\* the filter set and the fingerprint the closure goes on with: rebuilt
\* under the read lock when there is a filter list and the cache holds a
\* fingerprint that is not the one seen last
RebuiltFilter ==
    IF filter_list # None /\ cur_fingerprint # None /\ cur_fingerprint # last_fp
    THEN [filter_set |-> Some(build_filter_set(filter_list[1], var_mapping)),
          last_fp |-> cur_fingerprint]
    ELSE [filter_set |-> filter_set, last_fp |-> last_fp]

\* what the closure of the stream yields for the next event, if anything,
\* once it has looked at the cache
Yielded == process_var_changed_evt(RebuiltFilter.filter_set, Head(variable_events))

\* the closure of the stream takes the next event
StreamNext ==
    /\ sub_pc = "active"
    /\ variable_events # <<>>
    /\ filter_set' = RebuiltFilter.filter_set
    /\ last_fp' = RebuiltFilter.last_fp
    /\ variable_events' = Tail(variable_events)
    /\ UNCHANGED <<provider_side, provider_def_evt_stream, provider_def_resp, registry_definition, definition_events,
                   cur_fingerprint, cur_variable_defs, var_mapping, sub_pc,
                   filter_list, call, ret, sent_to_broker>>

----------------------------------------------------------------------------
(* The calls of DataHubProviderConnection.  A call takes the read lock of  *)
(* the cache once per step; the event loop may run between two steps.      *)

\* a call under way: where it is, the ids it resolved, the fingerprint it read
Call(op, arg, at, ids, fp) ==
    Some([op |-> op, arg |-> arg, at |-> at, ids |-> ids, fp |-> fp])

\* a call that returned
Ret(op, arg, result, value) ==
    Some([op |-> op, arg |-> arg, result |-> result, value |-> value])

\* the key lists of read_variables and the (key, value) lists of
\* write_variables
ReadFilters == {None} \cup { Some(ks) : ks \in ListsOf(Keys, 1, MaxVars) }
WritePairs ==
    ListsOf({ [key |-> k, value |-> [t |-> ty, v |-> MaxVal]] :
                 k \in Keys, ty \in DataTypes }, 1, MaxVars)

\* the argument of a call as the list of its (key, value) pairs: a call
\* that names keys only has no values, read_variables without a filter has
\* no pairs
NoValue == [t |-> "NONE", v |-> 0]
KeysOnly(keys) == [n \in 1 .. Len(keys) |-> [key |-> keys[n], value |-> NoValue]]

\* the keys a caller may ask the cache about
CallKeys == Keys \cup {CollidingKey}

\* the calls start from here
Idle == call = None /\ sub_pc = "none"

\* variable_id_from_key
variable_id_from_key(key) ==
    IF key_hash(key) \in DOMAIN var_mapping
    THEN [result |-> "Ok", id |-> var_mapping[key_hash(key)]]
    ELSE [result |-> "InvalidVariableKey", id |-> 0]

\* DataHubProviderConnection::get_variable_definition, first read lock:
\* the id of the key
GetDefinitionId ==
    /\ Idle
    /\ \E key \in CallKeys :
          LET found == variable_id_from_key(key)
          IN  IF found.result = "Ok"
              THEN /\ call' = Call("get_variable_definition", KeysOnly(<<key>>),
                                   "definition", <<found.id>>, None)
                   /\ ret' = None
              ELSE /\ call' = None
                   /\ ret' = Ret("get_variable_definition", KeysOnly(<<key>>),
                                 found.result, None)
    /\ sent_to_broker' = None
    /\ UNCHANGED <<provider_side, provider_def_evt_stream, provider_def_resp, registry_definition, definition_events,
                   cur_fingerprint, cur_variable_defs, var_mapping,
                   variable_events, sub_pc, filter_list, filter_set, last_fp>>

\* DataHubProviderConnection::get_variable_definition, second read lock:
\* the definition of the id
GetDefinition ==
    /\ call # None
    /\ call[1].at = "definition"
    /\ LET id == call[1].ids[1]
       IN  ret' = IF id \in DOMAIN cur_variable_defs
                  THEN Ret(call[1].op, call[1].arg, "Ok", Some(cur_variable_defs[id]))
                  ELSE Ret(call[1].op, call[1].arg, "InvalidVariableId", None)
    /\ call' = None
    /\ UNCHANGED <<provider_side, provider_def_evt_stream, provider_def_resp, registry_definition, definition_events,
                   cur_fingerprint, cur_variable_defs, var_mapping,
                   variable_events, sub_pc, filter_list, filter_set, last_fp,
                   sent_to_broker>>

\* a check that finds every provider online
AlwaysOnline(fingerprint) == "Ok"

\* check_online
check_online(fingerprint) ==
    IF fingerprint = None THEN "ProviderOfflineOrInvalid" ELSE "Ok"

\* DataHubProviderConnection::read_variables up to its first await:
\* check_online, then the ids of the keys
ReadVariables ==
    /\ Idle
    /\ \E filter \in ReadFilters :
          LET arg == IF filter = None THEN <<>> ELSE KeysOnly(filter[1])
          IN  IF check_online(cur_fingerprint) # "Ok"
              THEN /\ call' = None
                   /\ ret' = Ret("read_variables", arg,
                                 check_online(cur_fingerprint), None)
              ELSE /\ call' = Call("read_variables", arg,
                                   IF filter = None THEN "request" ELSE "ids",
                                   <<>>, None)
                   /\ ret' = None
    /\ sent_to_broker' = None
    /\ UNCHANGED <<provider_side, provider_def_evt_stream, provider_def_resp, registry_definition, definition_events,
                   cur_fingerprint, cur_variable_defs, var_mapping,
                   variable_events, sub_pc, filter_list, filter_set, last_fp>>

\* DataHubProviderConnection::write_variables, first read lock: the
\* fingerprint the command will carry.  pairs are the (key, value) lists a
\* caller may pass.
WriteVariablesOf(pairs) ==
    /\ Idle
    /\ \E new_values \in pairs :
          IF cur_fingerprint = None
          THEN /\ call' = None
               /\ ret' = Ret("write_variables", new_values,
                             "ProviderOfflineOrInvalid", None)
          ELSE /\ call' = Call("write_variables", new_values, "ids", <<>>,
                               cur_fingerprint)
               /\ ret' = None
    /\ sent_to_broker' = None
    /\ UNCHANGED <<provider_side, provider_def_evt_stream, provider_def_resp, registry_definition, definition_events,
                   cur_fingerprint, cur_variable_defs, var_mapping,
                   variable_events, sub_pc, filter_list, filter_set, last_fp>>

WriteVariables == WriteVariablesOf(WritePairs)

\* the keys a call has to resolve, in the order it resolves them
KeysOf(c) == [n \in 1 .. Len(c.arg) |-> c.arg[n].key]

\* read_variables and write_variables: the id of the next key, each under
\* a read lock of its own; an unknown key ends the call
ResolveKey ==
    /\ call # None
    /\ call[1].at = "ids"
    /\ LET c == call[1]
           keys == KeysOf(c)
           n == Len(c.ids) + 1
           found == variable_id_from_key(keys[n])
           next == IF n < Len(keys) THEN "ids"
                   ELSE IF c.op = "read_variables" THEN "request"
                   ELSE "check_online"
       IN  IF found.result = "Ok"
           THEN /\ call' = Call(c.op, c.arg, next, Append(c.ids, found.id), c.fp)
                /\ ret' = None
           ELSE /\ call' = None
                /\ ret' = Ret(c.op, c.arg, found.result, None)
    /\ UNCHANGED <<provider_side, provider_def_evt_stream, provider_def_resp, registry_definition, definition_events,
                   cur_fingerprint, cur_variable_defs, var_mapping,
                   variable_events, sub_pc, filter_list, filter_set, last_fp,
                   sent_to_broker>>

\* read_variables_unchecked: the request goes out, then the reply or the
\* error of the broker
ReadVariablesUnchecked ==
    /\ call # None
    /\ call[1].at = "request"
    /\ sent_to_broker' = Some([kind |-> "read_request",
                               has_ids |-> call[1].arg # <<>>,
                               ids |-> call[1].ids])
    /\ \E result \in {"Ok", "NatsRequest"} :
          ret' = Ret(call[1].op, call[1].arg, result, None)
    /\ call' = None
    /\ UNCHANGED <<provider_side, provider_def_evt_stream, provider_def_resp, registry_definition, definition_events,
                   cur_fingerprint, cur_variable_defs, var_mapping,
                   variable_events, sub_pc, filter_list, filter_set, last_fp>>

\* ConnectedNatsProvider::write_variables, check_online
WriteCheckOnline ==
    /\ call # None
    /\ call[1].at = "check_online"
    /\ LET c == call[1]
       IN  IF check_online(cur_fingerprint) = "Ok"
           THEN /\ call' = Call(c.op, c.arg, "check_write_command", c.ids, c.fp)
                /\ ret' = None
           ELSE /\ call' = None
                /\ ret' = Ret(c.op, c.arg, check_online(cur_fingerprint), None)
    /\ UNCHANGED <<provider_side, provider_def_evt_stream, provider_def_resp, registry_definition, definition_events,
                   cur_fingerprint, cur_variable_defs, var_mapping,
                   variable_events, sub_pc, filter_list, filter_set, last_fp,
                   sent_to_broker>>

\* the items of the write command: the resolved ids with the values
CommandItems(c) ==
    [n \in 1 .. Len(c.arg) |-> [id |-> c.ids[n], value |-> c.arg[n].value]]

\* check_variable_value_type
check_variable_value_type(value, data_type) ==
    IF value.t = data_type THEN "Ok" ELSE "InvalidValueType"

\* the error of one item of a write command, if any
CheckItem(var_defs, var) ==
    IF var.id \notin DOMAIN var_defs THEN "InvalidVariableId"
    ELSE IF var_defs[var.id].read_only THEN "NotPermitted"
    ELSE check_variable_value_type(var.value, var_defs[var.id].value.t)

\* a check that looks at the first item only
CheckFirstItemOnly(var_defs, written_vars) ==
    IF written_vars = <<>> THEN "Ok" ELSE CheckItem(var_defs, written_vars[1])

\* check_write_command: the error of the first item that has one
check_write_command(var_defs, written_vars) ==
    LET bad == { n \in 1 .. Len(written_vars) :
                    CheckItem(var_defs, written_vars[n]) # "Ok" }
    IN  IF bad = {} THEN "Ok" ELSE CheckItem(var_defs, written_vars[Min(bad)])

\* ConnectedNatsProvider::write_variables, check_write_command: the whole
\* check under one read lock
WriteCheckCommand ==
    /\ call # None
    /\ call[1].at = "check_write_command"
    /\ LET c == call[1]
           checked == check_write_command(cur_variable_defs, CommandItems(c))
       IN  IF checked = "Ok"
           THEN /\ call' = Call(c.op, c.arg, "unchecked", c.ids, c.fp)
                /\ ret' = None
           ELSE /\ call' = None
                /\ ret' = Ret(c.op, c.arg, checked, None)
    /\ UNCHANGED <<provider_side, provider_def_evt_stream, provider_def_resp, registry_definition, definition_events,
                   cur_fingerprint, cur_variable_defs, var_mapping,
                   variable_events, sub_pc, filter_list, filter_set, last_fp,
                   sent_to_broker>>

\* write_variables_unchecked: the cached fingerprint is read once more and
\* compared with the one of the command; then publish and flush
WriteVariablesUnchecked ==
    /\ call # None
    /\ call[1].at = "unchecked"
    /\ LET c == call[1]
       IN  IF cur_fingerprint = None
           THEN /\ ret' = Ret(c.op, c.arg, "ProviderOfflineOrInvalid", None)
                /\ UNCHANGED sent_to_broker
           ELSE IF cur_fingerprint # c.fp
           THEN /\ ret' = Ret(c.op, c.arg, "ProviderFingerprintMismatch", None)
                /\ UNCHANGED sent_to_broker
           ELSE \E outcome \in {"Ok", "NatsPublish", "NatsFlush"} :
                   /\ ret' = Ret(c.op, c.arg, outcome, None)
                   /\ sent_to_broker' =
                          IF outcome = "NatsPublish" THEN sent_to_broker
                          ELSE Some(Msg("write_command", c.fp[1], CommandItems(c)))
    /\ call' = None
    /\ UNCHANGED <<provider_side, provider_def_evt_stream, provider_def_resp, registry_definition, definition_events,
                   cur_fingerprint, cur_variable_defs, var_mapping,
                   variable_events, sub_pc, filter_list, filter_set, last_fp>>

----------------------------------------------------------------------------
(* wait_until_variable_keys_are_available.                                 *)

\* the key lists a caller waits for
WaitKeys == ListsOf(Keys, 0, MaxVars)

\* all(|key| defs.any(|def| def.key == *key)): the strings are compared
all_keys_available(arg, defs) ==
    \A n \in 1 .. Len(arg) : \E d \in defs : d.key = arg[n].key

\* subscribe_provider_events: what the stream of the call makes of a
\* payload; an event that fails to decode is left out
ProviderEvent(event) ==
    IF ~event.decodes THEN None
    ELSE IF event.provider_definition = None THEN Some([kind |-> "Offline", defs |-> {}])
    ELSE IF event.provider_definition[1].state = "Ok"
    THEN Some([kind |-> "DefinitionChanged",
               defs |-> { event.provider_definition[1].variable_definitions[n] :
                            n \in 1 .. Len(event.provider_definition[1].variable_definitions) }])
    ELSE Some([kind |-> "Invalid", defs |-> {}])

\* wait_until_variable_keys_are_available up to its subscription: an empty
\* list returns at once, else the call subscribes to the provider events
WaitSubscribe ==
    /\ Idle
    /\ \E keys \in WaitKeys :
          IF keys = <<>>
          THEN /\ call' = None
               /\ ret' = Ret("wait_until_variable_keys_are_available",
                             KeysOnly(keys), "Ok", None)
          ELSE /\ call' = Call("wait_until_variable_keys_are_available",
                               KeysOnly(keys), "check", <<>>, None)
               /\ ret' = None
    /\ provider_def_evt_stream' = <<>>
    /\ sent_to_broker' = None
    /\ UNCHANGED <<provider_side, provider_def_resp, registry_definition,
                   definition_events, cur_fingerprint, cur_variable_defs,
                   var_mapping, variable_events, sub_pc, filter_list,
                   filter_set, last_fp>>

\* wait_until_variable_keys_are_available, the check of the cache: the call
\* returns if the cached definitions have all the keys
WaitCheckCache ==
    /\ call # None
    /\ call[1].op = "wait_until_variable_keys_are_available"
    /\ call[1].at = "check"
    /\ LET c == call[1]
           defs == { cur_variable_defs[i] : i \in DOMAIN cur_variable_defs }
       IN  IF all_keys_available(c.arg, defs)
           THEN /\ call' = None
                /\ ret' = Ret(c.op, c.arg, "Ok", None)
                /\ provider_def_evt_stream' = <<>>
           ELSE /\ call' = Call(c.op, c.arg, "events", c.ids, c.fp)
                /\ UNCHANGED <<ret, provider_def_evt_stream>>
    /\ UNCHANGED <<provider_side, provider_def_resp, registry_definition,
                   definition_events, cur_fingerprint, cur_variable_defs,
                   var_mapping, variable_events, sub_pc, filter_list,
                   filter_set, last_fp, sent_to_broker>>

\* wait_until_variable_keys_are_available, one turn of its loop: the call
\* returns on a changed definition that has all the keys
WaitNextEvent ==
    /\ call # None
    /\ call[1].op = "wait_until_variable_keys_are_available"
    /\ call[1].at = "events"
    /\ provider_def_evt_stream # <<>>
    /\ LET c == call[1]
           provider_evt == ProviderEvent(Head(provider_def_evt_stream))
       IN  IF /\ provider_evt # None
              /\ provider_evt[1].kind = "DefinitionChanged"
              /\ all_keys_available(c.arg, provider_evt[1].defs)
           THEN /\ call' = None
                /\ ret' = Ret(c.op, c.arg, "Ok", None)
                /\ provider_def_evt_stream' = <<>>
           ELSE /\ provider_def_evt_stream' = Tail(provider_def_evt_stream)
                /\ UNCHANGED <<call, ret>>
    /\ UNCHANGED <<provider_side, provider_def_resp, registry_definition,
                   definition_events, cur_fingerprint, cur_variable_defs,
                   var_mapping, variable_events, sub_pc, filter_list,
                   filter_set, last_fp, sent_to_broker>>

ConsumerNext ==
    \/ RegistryPublishes
    \/ GarbledDefinition
    \/ ProviderPublishes
    \/ internal_event_loop
    \/ SubscribeGetFingerprint
    \/ SubscribeBuildFilterSet
    \/ GarbledVariables
    \/ StreamNext
    \/ GetDefinitionId
    \/ GetDefinition
    \/ ReadVariables
    \/ WriteVariables
    \/ ResolveKey
    \/ ReadVariablesUnchecked
    \/ WriteCheckOnline
    \/ WriteCheckCommand
    \/ WriteVariablesUnchecked
    \/ WaitSubscribe
    \/ WaitCheckCache
    \/ WaitNextEvent

ConsumerSpec == ConsumerInit /\ [][ConsumerNext]_vars

----------------------------------------------------------------------------
(* ProviderDefinitionT::validate as a function of any list of definitions. *)

MaxDefs == 3      \* longest list of definitions handed to the validator

\* the definitions a list may hold: the ones the callers build, ones with
\* a trailing dot in the key and one without a data type
DefinitionPool ==
    VariablePool
        \cup { Variable(i, [key |-> <<"a", "">>, read_only |-> FALSE, t |-> "Int64"], 0) :
                 i \in Ids }
        \cup { Variable(0, [key |-> <<"c">>, read_only |-> FALSE, t |-> "UNSPECIFIED"], 0) }

\* a provider definition with any list of definitions
ValidateInit ==
    /\ pc = "builder"
    /\ state = "Connecting"
    /\ variables = NoVariables
    /\ current_fingerprint = calc_variables_hash(NoVariables)
    /\ write_event_notiers = <<>>
    /\ handle = "new"
    /\ pending = 0
    /\ published = <<>>
    /\ delivered = <<>>
    /\ reply = NoReply
    /\ \E defs \in ListsOf(DefinitionPool, 0, MaxDefs) : cur = Cur("validate", defs)
    /\ NoConsumer

\* ProviderDefinitionT::validate
Validate ==
    /\ cur.kind = "validate"
    /\ reply = NoReply
    /\ reply' = validate(cur.arg)
    /\ UNCHANGED <<consumer_side, pc, state, variables, current_fingerprint,
                   write_event_notiers, handle, pending, cur, published, delivered>>

ValidateSpec == ValidateInit /\ [][Validate]_vars

----------------------------------------------------------------------------
(* The subjects of a provider.  A string is the sequence of its pieces: a  *)
(* piece is a dot or a run of characters without a dot.                    *)

Dot == "."

VERSION_PREFIX == <<"v1">>
LOCATION_PREFIX == <<"loc">>

\* format!("{a}.{b}. ... "): the strings joined by dots
RECURSIVE Joined(_)
Joined(strings) ==
    IF Len(strings) = 1 THEN strings[1]
    ELSE strings[1] \o <<Dot>> \o Joined(Tail(strings))

\* the builders of the subjects that name a provider
SubjectBuilders ==
    {"vars_changed_event", "read_variables_query", "write_variables_command",
     "provider_changed_event", "registry_provider_definition_read_query",
     "registry_provider_definition_changed_event"}

\* the subject a builder makes for a provider id
Subject(builder, provider_id) ==
    CASE builder = "vars_changed_event" ->
           Joined(<<VERSION_PREFIX, LOCATION_PREFIX, provider_id,
                    <<"vars">>, <<"evt">>, <<"changed">>>>)
      [] builder = "read_variables_query" ->
           Joined(<<VERSION_PREFIX, LOCATION_PREFIX, provider_id,
                    <<"vars">>, <<"qry">>, <<"read">>>>)
      [] builder = "write_variables_command" ->
           Joined(<<VERSION_PREFIX, LOCATION_PREFIX, provider_id,
                    <<"vars">>, <<"cmd">>, <<"write">>>>)
      [] builder = "provider_changed_event" ->
           Joined(<<VERSION_PREFIX, LOCATION_PREFIX, provider_id,
                    <<"def">>, <<"evt">>, <<"changed">>>>)
      [] builder = "registry_provider_definition_read_query" ->
           Joined(<<VERSION_PREFIX, LOCATION_PREFIX, <<"registry">>, <<"providers">>,
                    provider_id, <<"def">>, <<"qry">>, <<"read">>>>)
      [] builder = "registry_provider_definition_changed_event" ->
           Joined(<<VERSION_PREFIX, LOCATION_PREFIX, <<"registry">>, <<"providers">>,
                    provider_id, <<"def">>, <<"evt">>, <<"changed">>>>)

\* str::split('.'): the strings between the dots, empty ones included
RECURSIVE Split(_)
Split(subject) ==
    IF \A n \in 1 .. Len(subject) : subject[n] # Dot THEN <<subject>>
    ELSE LET k == Min({ n \in 1 .. Len(subject) : subject[n] = Dot })
         IN  <<SubSeq(subject, 1, k - 1)>> \o Split(SubSeq(subject, k + 1, Len(subject)))

\* get_index_of_provider_id, counted from 0 as the code counts
get_index_of_provider_id(parts) ==
    IF Len(parts) >= 4 /\ parts[3] = <<"registry">> /\ parts[4] = <<"providers">>
    THEN 4
    ELSE 2

\* get_provider_id_from_subject
get_provider_id_from_subject(subject) ==
    LET parts == Split(subject)
        provider_id_index == get_index_of_provider_id(parts)
    IN  IF provider_id_index + 1 <= Len(parts) /\ parts[provider_id_index + 1] # <<>>
        THEN [result |-> "Ok", id |-> Some(parts[provider_id_index + 1])]
        ELSE [result |-> "NoProviderInSubject", id |-> None]

\* the provider ids a subject is built for: the name of the client, any
\* string
ProviderIds ==
    { <<>>, <<"a">>, <<"b">>, <<"registry">>, <<"providers">>,
      <<"a", Dot, "b">>, <<"registry", Dot, "providers">> }

\* a caller is about to build a subject for a provider id
SubjectInit ==
    /\ ProviderInit
    /\ registry_definition = <<>>
    /\ definition_events = <<>>
    /\ cur_fingerprint = None
    /\ cur_variable_defs = NoVariables
    /\ var_mapping = NoVariables
    /\ variable_events = <<>>
    /\ sub_pc = "none"
    /\ filter_list = None
    /\ filter_set = None
    /\ last_fp = None
    /\ \E builder \in SubjectBuilders, provider_id \in ProviderIds :
          call = Call(builder, provider_id, "build", <<>>, None)
    /\ ret = None
    /\ sent_to_broker = None
    /\ provider_def_evt_stream = <<>>
    /\ provider_def_resp = None

\* the builder is called
BuildSubject ==
    /\ call # None
    /\ call[1].at = "build"
    /\ sent_to_broker' = Some(Subject(call[1].op, call[1].arg))
    /\ call' = Call(call[1].op, call[1].arg, "extract", call[1].ids, call[1].fp)
    /\ UNCHANGED <<provider_side, provider_def_evt_stream, provider_def_resp,
                   registry_definition, definition_events, cur_fingerprint,
                   cur_variable_defs, var_mapping, variable_events, sub_pc,
                   filter_list, filter_set, last_fp, ret>>

\* get_provider_id_from_subject is called with the subject
ExtractProviderId ==
    /\ call # None
    /\ call[1].at = "extract"
    /\ LET found == get_provider_id_from_subject(sent_to_broker[1])
       IN  ret' = Ret(call[1].op, call[1].arg, found.result, found.id)
    /\ call' = None
    /\ UNCHANGED <<provider_side, provider_def_evt_stream, provider_def_resp,
                   registry_definition, definition_events, cur_fingerprint,
                   cur_variable_defs, var_mapping, variable_events, sub_pc,
                   filter_list, filter_set, last_fp, sent_to_broker>>

SubjectNext == BuildSubject \/ ExtractProviderId

SubjectSpec == SubjectInit /\ [][SubjectNext]_vars

----------------------------------------------------------------------------
(* NatsConsumer::wait_for_provider.  The call runs before a connection to  *)
(* the provider exists: there is no cache and no event loop.               *)

\* the definition in an answer or an event is there and in state Ok
IsOkDefinition(event) ==
    /\ event.decodes
    /\ event.provider_definition # None
    /\ event.provider_definition[1].state = "Ok"

\* the registry holds any definition of the provider, or none
WaitInit ==
    /\ ProviderInit
    /\ registry_definition \in RegistryEvents
    /\ definition_events = <<>>
    /\ cur_fingerprint = None
    /\ cur_variable_defs = NoVariables
    /\ var_mapping = NoVariables
    /\ variable_events = <<>>
    /\ sub_pc = "none"
    /\ filter_list = None
    /\ filter_set = None
    /\ last_fp = None
    /\ call = None
    /\ ret = None
    /\ sent_to_broker = None
    /\ provider_def_evt_stream = <<>>
    /\ provider_def_resp = None

\* what the calls of wait_for_provider leave alone
no_connection ==
    <<provider_side, definition_events, cur_fingerprint, cur_variable_defs,
      var_mapping, variable_events, sub_pc, filter_list, filter_set, last_fp,
      sent_to_broker>>

\* the registry publishes a definition-changed event for the provider
RegistryChanges ==
    /\ Len(provider_def_evt_stream) < MaxEvents
    /\ \E e \in RegistryEvents :
          /\ registry_definition' = e
          /\ provider_def_evt_stream' = Deliver(e)
    /\ UNCHANGED <<no_connection, call, ret, provider_def_resp>>

\* a payload on the subject of the definition events fails to decode
GarbledWhileWaiting ==
    /\ Subscribed
    /\ Len(provider_def_evt_stream) < MaxEvents
    /\ provider_def_evt_stream' = Deliver(UndecodableEvent)
    /\ UNCHANGED <<no_connection, registry_definition, call, ret, provider_def_resp>>

WaitsForProvider == call # None /\ call[1].op = "wait_for_provider"

\* wait_for_provider up to its subscription; the read request is sent next
WaitForProviderSubscribe ==
    /\ call = None
    /\ ret = None
    /\ call' = Call("wait_for_provider", <<>>, "read", <<>>, None)
    /\ provider_def_evt_stream' = <<>>
    /\ UNCHANGED <<no_connection, registry_definition, ret, provider_def_resp>>

\* read_provider_definition_internal: the registry answers the request with
\* the definition it holds
ReadAnswered ==
    /\ WaitsForProvider
    /\ call[1].at = "read"
    /\ provider_def_resp' = Some(registry_definition)
    /\ call' = Call(call[1].op, call[1].arg, "check", call[1].ids, call[1].fp)
    /\ UNCHANGED <<no_connection, registry_definition, ret, provider_def_evt_stream>>

\* read_provider_definition_internal returns an error: no answer in time,
\* or an answer that fails to decode
ReadFails ==
    /\ WaitsForProvider
    /\ call[1].at = "read"
    /\ provider_def_resp' = None
    /\ call' = Call(call[1].op, call[1].arg, "check", call[1].ids, call[1].fp)
    /\ UNCHANGED <<no_connection, registry_definition, ret, provider_def_evt_stream>>

\* wait_for_provider, the check of the answer: an Ok definition ends the call
WaitForProviderCheck ==
    /\ WaitsForProvider
    /\ call[1].at = "check"
    /\ IF provider_def_resp # None /\ IsOkDefinition(provider_def_resp[1])
       THEN /\ call' = None
            /\ ret' = Ret(call[1].op, call[1].arg, "Ok", None)
            /\ provider_def_evt_stream' = <<>>
       ELSE /\ call' = Call(call[1].op, call[1].arg, "events", call[1].ids, call[1].fp)
            /\ UNCHANGED <<ret, provider_def_evt_stream>>
    /\ UNCHANGED <<no_connection, registry_definition, provider_def_resp>>

\* wait_for_provider, one turn of its loop: an event with an Ok definition
\* ends the call
WaitForProviderNext ==
    /\ WaitsForProvider
    /\ call[1].at = "events"
    /\ provider_def_evt_stream # <<>>
    /\ IF IsOkDefinition(Head(provider_def_evt_stream))
       THEN /\ call' = None
            /\ ret' = Ret(call[1].op, call[1].arg, "Ok", None)
            /\ provider_def_evt_stream' = <<>>
       ELSE /\ provider_def_evt_stream' = Tail(provider_def_evt_stream)
            /\ UNCHANGED <<call, ret>>
    /\ UNCHANGED <<no_connection, registry_definition, provider_def_resp>>

\* the stream of the subscription ends: the loop is left and the call
\* returns Ok
StreamEnds ==
    /\ WaitsForProvider
    /\ call[1].at = "events"
    /\ provider_def_evt_stream = <<>>
    /\ call' = None
    /\ ret' = Ret(call[1].op, call[1].arg, "Ok", None)
    /\ UNCHANGED <<no_connection, registry_definition, provider_def_evt_stream,
                   provider_def_resp>>

WaitNext ==
    \/ RegistryChanges
    \/ GarbledWhileWaiting
    \/ WaitForProviderSubscribe
    \/ ReadAnswered
    \/ ReadFails
    \/ WaitForProviderCheck
    \/ WaitForProviderNext
    \/ StreamEnds

\* The call is a future that the runtime polls whenever it can go on: with
\* an answer to check or an event on its stream it takes its next step.
\* Nothing makes the registry publish or the stream end.
WaitSpec ==
    /\ WaitInit
    /\ [][WaitNext]_vars
    /\ WF_vars(WaitForProviderCheck)
    /\ WF_vars(WaitForProviderNext)

----------------------------------------------------------------------------
(* The loops that take payloads from the broker: the select of a running   *)
(* worker in a provider process, the event loop of the cache and the       *)
(* stream of variable events in a consumer process.                        *)

\* the tables a builder hands to the worker
BuiltTables ==
    { Extend(NoVariables, vs) :
          vs \in { l \in ListsOf(VariablePool, 1, MaxVars) :
                       validate_var_list(NoVariables, l) = "Ok" } }

\* ProviderWorker::run in state Running, with no write subscriber or one
WorkerRuns ==
    /\ pc = "select"
    /\ state = "Running"
    /\ variables \in BuiltTables
    /\ current_fingerprint = calc_variables_hash(variables)
    /\ \E ids \in SUBSET DOMAIN variables :
          write_event_notiers = IF ids = {} THEN <<>>
                                ELSE <<[ids |-> ids, alive |-> TRUE]>>
    /\ handle = "provider"
    /\ pending = 0
    /\ cur = NoCur
    /\ published = <<>>
    /\ delivered = <<>>
    /\ reply = NoReply

\* a ConnectedNatsProvider was constructed: its event loop runs
Connected == registry_definition # <<>>

\* a process holds a running worker, or a connection to a provider
MalformedInit ==
    \/ WorkerRuns /\ NoConsumer
    \/ ConsumerInit

MalformedNext ==
    \/ RunLoop
    \/ Query
    \/ HandleWrite
    \/ Connected /\ RegistryPublishes
    \/ Connected /\ GarbledDefinition
    \/ Connected /\ internal_event_loop
    \/ Connected /\ SubscribeGetFingerprint
    \/ Connected /\ SubscribeBuildFilterSet
    \/ Connected /\ ProviderPublishes
    \/ Connected /\ GarbledVariables
    \/ Connected /\ StreamNext

MalformedSpec == MalformedInit /\ [][MalformedNext]_vars

----------------------------------------------------------------------------
(* handle_write step by step, with the bounded channel of a subscriber.    *)
(* The entry of the subscriber holds the batches waiting in its channel;   *)
(* delivered holds the batch the worker is sending; pending counts the     *)
(* command the task that owns the receiver has sent and not been answered. *)

MaxSink == 1      \* batches the channel of a subscriber holds (100 in the code)

\* the worker runs and one task holds a Provider handle and the receiver of
\* a write subscription
DispatchInit ==
    /\ pc = "select"
    /\ state = "Running"
    /\ variables \in BuiltTables
    /\ current_fingerprint = calc_variables_hash(variables)
    /\ \E ids \in (SUBSET DOMAIN variables) \ {{}} :
          write_event_notiers = <<[ids |-> ids, alive |-> TRUE, sink |-> <<>>]>>
    /\ handle = "provider"
    /\ pending = 0
    /\ cur = NoCur
    /\ published = <<>>
    /\ delivered = <<>>
    /\ reply = NoReply
    /\ NoConsumer

\* the items of a command that go to the subscriber
ItemsForSender(cmd) ==
    IF write_event_notiers = <<>> THEN <<>>
    ELSE SelectSeq(WriteItems(variables, cmd.items),
                   LAMBDA var : var.id \in write_event_notiers[1].ids)

\* handle_write up to the send: the command is decoded, checked and filtered
DispatchWrite ==
    /\ Running
    /\ \E cmd \in WriteCommands :
          IF /\ FingerprintMatches(cmd.fingerprint, current_fingerprint)
             /\ cmd.has_items
             /\ ItemsForSender(cmd) # <<>>
          THEN /\ pc' = "send"
               /\ delivered' = <<ItemsForSender(cmd)>>
          ELSE /\ pc' = "loop"
               /\ delivered' = <<>>
    /\ published' = <<>>
    /\ UNCHANGED <<consumer_side, state, variables, current_fingerprint, write_event_notiers,
                   handle, pending, cur, reply>>

\* handle_write, tx.send(items_for_sender).await returns: with an error when
\* the receiver is gone (the entry is removed), else once the channel has
\* room for the batch
SendReturns ==
    /\ pc = "send"
    /\ LET e == write_event_notiers[1]
       IN  IF ~e.alive
           THEN write_event_notiers' = <<>>
           ELSE /\ Len(e.sink) < MaxSink
                /\ write_event_notiers' =
                       <<[e EXCEPT !.sink = Append(e.sink, delivered[1])]>>
    /\ pc' = "loop"
    /\ delivered' = <<>>
    /\ UNCHANGED <<consumer_side, state, variables, current_fingerprint, handle, pending,
                   cur, published, reply>>

\* the task that owns the receiver is inside a call of the Provider handle:
\* its command is sent and the answer has not come
InCall == pending > 0

\* Provider::update_variable_states: the command is sent, the task waits for
\* the answer
OwnerCalls ==
    /\ handle = "provider"
    /\ ~InCall
    /\ pending' = pending + 1
    /\ UNCHANGED <<consumer_side, pc, state, variables, current_fingerprint,
                   write_event_notiers, handle, cur, published, delivered, reply>>

\* Receiver::recv in the task that owns the receiver
OwnerReceives ==
    /\ ~InCall
    /\ write_event_notiers # <<>>
    /\ write_event_notiers[1].alive
    /\ write_event_notiers[1].sink # <<>>
    /\ write_event_notiers' =
           <<[write_event_notiers[1] EXCEPT !.sink = Tail(@)]>>
    /\ UNCHANGED <<consumer_side, pc, state, variables, current_fingerprint, handle, pending,
                   cur, published, delivered, reply>>

\* the task drops the receiver, and what waits in the channel with it
OwnerDropsSink ==
    /\ ~InCall
    /\ write_event_notiers # <<>>
    /\ write_event_notiers[1].alive
    /\ write_event_notiers' =
           <<[write_event_notiers[1] EXCEPT !.alive = FALSE, !.sink = <<>>]>>
    /\ UNCHANGED <<consumer_side, pc, state, variables, current_fingerprint, handle, pending,
                   cur, published, delivered, reply>>

DispatchNext ==
    \/ RunLoop
    \/ DispatchWrite
    \/ SendReturns
    \/ UpdateValues
    \/ OwnerCalls
    \/ OwnerReceives
    \/ OwnerDropsSink

\* every task is scheduled again and again: the worker goes on when it can,
\* and the task that owns the receiver takes a batch whenever it is not
\* inside a call
DispatchSpec ==
    /\ DispatchInit
    /\ [][DispatchNext]_vars
    /\ WF_vars(RunLoop)
    /\ WF_vars(SendReturns)
    /\ WF_vars(UpdateValues)
    /\ SF_vars(OwnerReceives)

----------------------------------------------------------------------------
(* ConnectedNatsProvider::new step by step: the definition is read from    *)
(* the registry, the cache is built from the answer, and only then the     *)
(* subject of the definition events is subscribed and the event loop       *)
(* spawned.                                                                *)

\* the registry holds any definition of the provider, or none, and the
\* constructor is about to send its read request
ConnectInit ==
    /\ ProviderInit
    /\ registry_definition \in RegistryEvents
    /\ definition_events = <<>>
    /\ cur_fingerprint = None
    /\ cur_variable_defs = NoVariables
    /\ var_mapping = NoVariables
    /\ variable_events = <<>>
    /\ sub_pc = "none"
    /\ filter_list = None
    /\ filter_set = None
    /\ last_fp = None
    /\ call = Call("new", <<>>, "read", <<>>, None)
    /\ ret = None
    /\ sent_to_broker = None
    /\ provider_def_evt_stream = <<>>
    /\ provider_def_resp = None

Constructing == call # None /\ call[1].op = "new"

\* new returned a connection: the event loop holds its subscription
Constructed == call = None /\ ret # None /\ ret[1].result = "Ok"

\* what the steps of the constructor leave alone
outside_new ==
    <<provider_side, variable_events, sub_pc, filter_list, filter_set, last_fp,
      sent_to_broker, provider_def_evt_stream, provider_def_resp>>

\* new, the read: the request fails, or the registry answers with the
\* definition it holds; anything but a definition in state Ok ends the call
ConnectRead ==
    /\ Constructing
    /\ call[1].at = "read"
    /\ \E answered \in BOOLEAN :
          IF answered /\ IsOkDefinition(registry_definition)
          THEN /\ cur_fingerprint' =
                      Some(registry_definition.provider_definition[1].fingerprint)
               /\ cur_variable_defs' = RegisteredCatalogue
               /\ var_mapping' = key_mapping_from_variable_defs(cur_variable_defs')
               /\ call' = Call("new", <<>>, "subscribe", <<>>, cur_fingerprint')
               /\ ret' = ret
          ELSE /\ call' = None
               /\ ret' = Ret("new", <<>>, "ProviderOfflineOrInvalid", NoValue)
               /\ UNCHANGED <<cur_fingerprint, cur_variable_defs, var_mapping>>
    /\ UNCHANGED <<outside_new, registry_definition, definition_events>>

\* the subject of the definition events has a subscription of this
\* connection
EventLoopSubscribed == Constructed

\* new, the subscription: the event loop is spawned with the stream and the
\* connection is returned
ConnectSubscribe ==
    /\ Constructing
    /\ call[1].at = "subscribe"
    /\ \E subscribed \in BOOLEAN :
          /\ call' = None
          /\ ret' = Ret("new", <<>>, IF subscribed THEN "Ok" ELSE "NatsSub", NoValue)
    /\ UNCHANGED <<outside_new, registry_definition, definition_events, cur_fingerprint,
                   cur_variable_defs, var_mapping>>

\* the registry publishes a definition-changed event for the provider; the
\* broker hands it to the subscription of the event loop if there is one
RegistryChangesDefinition ==
    /\ Len(definition_events) < MaxEvents
    /\ \E e \in RegistryEvents :
          /\ registry_definition' = e
          /\ definition_events' = IF EventLoopSubscribed
                                  THEN Append(definition_events, e)
                                  ELSE definition_events
    /\ UNCHANGED <<outside_new, cur_fingerprint, cur_variable_defs, var_mapping, call, ret>>

ConnectNext ==
    \/ ConnectRead
    \/ ConnectSubscribe
    \/ RegistryChangesDefinition
    \/ internal_event_loop

ConnectSpec == ConnectInit /\ [][ConnectNext]_vars

----------------------------------------------------------------------------
(* The keyed write_variables against a provider all of whose variables are *)
(* writable and of one type, so that an id resolved from another catalogue *)
(* can pass check_write_command.                                           *)

\* the writable variables a provider may register
WritableShapes == { s \in DefShapes : ~s.read_only }

WritableKeys == { s.key : s \in WritableShapes }

\* the catalogues of such a provider: any ids for any of its keys
WritableCatalogues ==
    { m \in UNION { [S -> { v \in VariablePool : v.key \in WritableKeys }] :
                        S \in SUBSET Ids } :
         /\ \A i \in DOMAIN m : m[i].id = i
         /\ \A i, j \in DOMAIN m : i # j => m[i].key # m[j].key }

\* the registry accepted a catalogue of the provider
WritableEvents == { DefinitionEvent("Ok", m) : m \in WritableCatalogues }

\* the (key, value) lists a caller writes
WritablePairs ==
    ListsOf({ [key |-> k, value |-> [t |-> ty, v |-> MaxVal]] :
                 k \in WritableKeys, ty \in DataTypes }, 1, MaxVars)

KeyedWriteInit == ConnectedTo(WritableCatalogues)

KeyedWriteNext ==
    \/ RegistryPublishesOneOf(WritableEvents)
    \/ internal_event_loop
    \/ WriteVariablesOf(WritablePairs)
    \/ ResolveKey
    \/ WriteCheckOnline
    \/ WriteCheckCommand
    \/ WriteVariablesUnchecked

KeyedWriteSpec == KeyedWriteInit /\ [][KeyedWriteNext]_vars

----------------------------------------------------------------------------
(* The registration handshake as the broker carries it.  The worker        *)
(* publishes its catalogue on the provider subject; the registry answers   *)
(* each publication, in the order it got them, with an event on its        *)
(* definition-changed subject; the worker hears these events through a     *)
(* subscription that update_definition makes anew in every call and that   *)
(* ends when the call returns.  sent_to_broker holds the fingerprints of   *)
(* the publications the registry has not answered yet, definition_events   *)
(* the events that wait in the subscription of the worker, and ret the     *)
(* event that ended the wait of the last call.                             *)

MaxInFlight == 2   \* most messages on their way between worker and registry

\* a worker runs; nothing is on its way to or from the registry
HandshakeInit ==
    /\ WorkerRuns
    /\ NoConsumer

\* the consumer side but the three variables of the handshake
beside_handshake ==
    <<registry_definition, cur_fingerprint, cur_variable_defs, var_mapping,
      variable_events, sub_pc, filter_list, filter_set, last_fp, call,
      provider_def_evt_stream, provider_def_resp>>

\* publications the registry has not answered and events the worker has not
\* taken
InFlight == Len(sent_to_broker) + Len(definition_events)

\* an event of the registry: the definition it validated, by its
\* fingerprint, and the state the registry gave it
RegistryAnswer(fingerprint, outcome) ==
    [fingerprint |-> fingerprint, state |-> outcome]

\* update_definition(true) up to its wait: the subscription is new and
\* holds nothing; a publication that went out is on its way to the registry
Handshake(kind, arg, new_variables, added) ==
    /\ Len(sent_to_broker) < MaxInFlight
    /\ update_definition(kind, arg, new_variables, added)
    /\ definition_events' = <<>>
    /\ ret' = <<>>
    /\ sent_to_broker' = IF pc' = "ack"
                         THEN Append(sent_to_broker, current_fingerprint')
                         ELSE sent_to_broker
    /\ UNCHANGED beside_handshake

\* remove_variables
HandshakeOfRemove ==
    /\ Running
    /\ RecvCommand
    /\ \E ids \in ListsOf(WireIds, 1, MaxVars) :
          Handshake("remove", [n \in 1 .. Len(ids) |-> [id |-> ids[n]]],
                    RemoveIds(variables, ids), {})
    /\ UNCHANGED <<write_event_notiers, handle>>

\* run_state_running, a registry state event
HandshakeOfRegistryUp ==
    /\ Running
    /\ \E st \in RegistryStates :
          Handshake("register", st, variables, {})
    /\ UNCHANGED <<write_event_notiers, handle, pending>>

\* the registry validates the oldest publication it holds and publishes its
\* answer, which the worker gets if it is subscribed at that time
RegistryAnswers ==
    /\ sent_to_broker # <<>>
    /\ sent_to_broker' = Tail(sent_to_broker)
    /\ \E outcome \in AckOutcomes :
          definition_events' =
              IF pc = "ack"
              THEN Append(definition_events,
                          RegistryAnswer(Head(sent_to_broker), outcome))
              ELSE definition_events
    /\ UNCHANGED <<provider_side, beside_handshake, ret>>

\* update_definition, the wait: the next event of the subscription ends it,
\* whatever definition it is about
HandshakeReceiveAck ==
    /\ pc = "ack"
    /\ definition_events # <<>>
    /\ LET msg == Head(definition_events)
       IN  /\ FinishUpdateDefinition(cur.kind, msg.state = "Ok", variables,
                                     IdsOf(cur.arg))
           /\ cur' = [cur EXCEPT !.ack = msg.state]
           /\ ret' = msg
    /\ definition_events' = <<>>
    /\ delivered' = <<>>
    /\ UNCHANGED <<variables, current_fingerprint, write_event_notiers, handle,
                   pending, beside_handshake, sent_to_broker>>

\* update_definition, the wait: a registry state event republishes the
\* payload, or ends the call if the publication fails
HandshakeRepublish ==
    /\ pc = "ack"
    /\ InFlight < MaxInFlight
    /\ \E st \in RegistryStates, pub_ok \in BOOLEAN :
          IF pub_ok
          THEN /\ published' = <<DefinitionMsg(variables, current_fingerprint)>>
               /\ sent_to_broker' = Append(sent_to_broker, current_fingerprint)
               /\ UNCHANGED <<pc, state, reply, definition_events>>
          ELSE /\ FinishUpdateDefinition(cur.kind, FALSE, variables,
                                         IdsOf(cur.arg))
               /\ definition_events' = <<>>
               /\ UNCHANGED sent_to_broker
    /\ delivered' = <<>>
    /\ UNCHANGED <<variables, current_fingerprint, write_event_notiers, handle,
                   pending, cur, beside_handshake, ret>>

HandshakeNext ==
    \/ RunLoop
    \/ ApiSend
    \/ HandshakeOfRemove
    \/ HandshakeOfRegistryUp
    \/ RegistryAnswers
    \/ HandshakeReceiveAck
    \/ HandshakeRepublish

HandshakeSpec == HandshakeInit /\ [][HandshakeNext]_vars

----------------------------------------------------------------------------
(* The claims.  cur holds the input the worker has just handled together   *)
(* with the table, fingerprint and subscriber list it met; it is set by    *)
(* the handler and cleared at the head of the loop.                        *)

Handled(kind) == pc = "loop" /\ cur.kind = kind

\* number of positions of seq that hold x
Occurrences(seq, x) == Cardinality({ n \in 1 .. Len(seq) : seq[n] = x })

\* how often the batch sent to entry n holds the wire item it
Deliveries(n, it) ==
    Cardinality({ k \in 1 .. Len(delivered[n]) :
                      delivered[n][k].id = it.id /\ delivered[n][k].value = it.value })

\* C1: a write command whose fingerprint differs from the worker's current
\* fingerprint is delivered to no subscriber and leaves the variable table,
\* the fingerprint and the subscriber list as they were, whatever its items
\* and whatever the subscribers.
C1_StaleWriteChangesNothing ==
    (Handled("write") /\ cur.arg.fingerprint # cur.pre.fingerprint)
        => /\ \A n \in 1 .. Len(delivered) : delivered[n] = <<>>
           /\ variables = cur.pre.variables
           /\ current_fingerprint = cur.pre.fingerprint
           /\ write_event_notiers = cur.pre.notifiers

\* a stale command naming a writable variable that a live subscriber holds,
\* while another entry of the list is closed
C1_Witness ==
    /\ Handled("write")
    /\ cur.arg.fingerprint # cur.pre.fingerprint
    /\ \E k \in 1 .. Len(cur.arg.items), n \in 1 .. Len(cur.pre.notifiers) :
          LET it == cur.arg.items[k]
          IN  /\ it.id \in DOMAIN cur.pre.variables
              /\ ~cur.pre.variables[it.id].read_only
              /\ Decodes(it.value)
              /\ it.id \in cur.pre.notifiers[n].ids
              /\ cur.pre.notifiers[n].alive
    /\ \E n \in 1 .. Len(cur.pre.notifiers) : ~cur.pre.notifiers[n].alive

\* C2 as claimed: every VariablesChangedEvent and every
\* ReadVariablesQueryResponse published carries the fingerprint of the whole
\* current table, also when it lists only some of the variables.
C2_ListsCarryCatalogueFingerprint ==
    \A i \in 1 .. Len(published) :
        published[i].kind \in {"vars_changed", "read_response"}
            => published[i].fingerprint = calc_variables_hash(variables)

\* C3 as claimed: the task of the worker does not end before the worker has
\* published the unregister message.  The unregister is the last thing a
\* worker does before it finds the channel closed at the head of its loop,
\* and published is kept on that last step.
C3_UnregisterBeforeTaskEnds ==
    pc = "done" => \E i \in 1 .. Len(published) : published[i].kind = "unregister"

\* a write command with the current fingerprint and an item list was handled
MatchingWrite ==
    /\ Handled("write")
    /\ cur.arg.fingerprint = cur.pre.fingerprint
    /\ cur.arg.has_items

\* entries of the subscriber list the command met that hold the id
Holders(id) ==
    { n \in 1 .. Len(cur.pre.notifiers) : id \in cur.pre.notifiers[n].ids }

\* the conditions of the command's items, read from the table the command met
UnknownOrReadOnly(it) ==
    it.id \notin DOMAIN cur.pre.variables \/ cur.pre.variables[it.id].read_only

\* every batch is made of items of the command
OnlyItemsDelivered ==
    \A n \in 1 .. Len(delivered) : \A j \in 1 .. Len(delivered[n]) :
        \E k \in 1 .. Len(cur.arg.items) :
            /\ cur.arg.items[k].id = delivered[n][j].id
            /\ cur.arg.items[k].value = delivered[n][j].value

\* C4, amended: of a write command with the current fingerprint, an item
\* whose id is unknown, whose variable is read-only or whose value does not
\* decode is delivered to nobody; every other item is delivered once for each
\* time the command lists it, to the one subscriber whose id-set holds its id
\* if the receiving end of that subscriber is open, and to nobody else;
\* whether an item is delivered does not depend on the other items.
C4_ItemsRoutedIndependently ==
    MatchingWrite =>
        /\ OnlyItemsDelivered
        /\ \A k \in 1 .. Len(cur.arg.items) :
              LET it == cur.arg.items[k]
                  dropped == UnknownOrReadOnly(it) \/ ~Decodes(it.value)
              IN  /\ Cardinality(Holders(it.id)) <= 1
                  /\ \A n \in 1 .. Len(cur.pre.notifiers) :
                        Deliveries(n, it) =
                            IF ~dropped /\ n \in Holders(it.id) /\ cur.pre.notifiers[n].alive
                            THEN Occurrences(cur.arg.items, it)
                            ELSE 0

\* a command of two items: the first names a read-only variable that a live
\* subscriber holds and is dropped, the second is delivered
C4_Witness ==
    /\ MatchingWrite
    /\ Len(cur.arg.items) = 2
    /\ LET first == cur.arg.items[1]
           second == cur.arg.items[2]
       IN  /\ first.id \in DOMAIN cur.pre.variables
           /\ cur.pre.variables[first.id].read_only
           /\ Decodes(first.value)
           /\ \E n \in Holders(first.id) : cur.pre.notifiers[n].alive
           /\ \E n \in Holders(second.id) : Deliveries(n, second) = 1

\* C4 as claimed: every item whose id is known and whose variable is not
\* read-only is delivered exactly once to the subscriber whose id-set holds
\* its id.
C4_AsClaimed ==
    MatchingWrite =>
        \A k \in 1 .. Len(cur.arg.items) :
            LET it == cur.arg.items[k]
            IN  \A n \in 1 .. Len(cur.pre.notifiers) :
                    Deliveries(n, it) =
                        IF ~UnknownOrReadOnly(it) /\ n \in Holders(it.id)
                        THEN Occurrences(cur.arg.items, it)
                        ELSE 0

\* C5: no variable id is in the id-set of two entries of the subscriber list.
C5_IdBoundToAtMostOneSubscriber ==
    \A n, k \in 1 .. Len(write_event_notiers) :
        n # k => write_event_notiers[n].ids \cap write_event_notiers[k].ids = {}

\* a write command found the receiving end of one entry closed and removed
\* the entry, another entry stays
C5_Witness ==
    /\ MatchingWrite
    /\ Len(cur.pre.notifiers) = 2
    /\ Len(write_event_notiers) = 1

\* the Subscribe just handled names only variables of the table
SubscribeToKnownIds ==
    /\ Handled("subscribe")
    /\ \A n \in 1 .. Len(cur.arg) : cur.arg[n] \in DOMAIN cur.pre.variables

\* an id of the Subscribe is held by an entry whose receiving end is open
LiveBound ==
    \E n \in 1 .. Len(cur.arg), k \in 1 .. Len(cur.pre.notifiers) :
        cur.arg[n] \in cur.pre.notifiers[k].ids /\ cur.pre.notifiers[k].alive

\* an id of the Subscribe is held by an entry whose receiving end was dropped
DroppedBound ==
    \E n \in 1 .. Len(cur.arg), k \in 1 .. Len(cur.pre.notifiers) :
        cur.arg[n] \in cur.pre.notifiers[k].ids /\ ~cur.pre.notifiers[k].alive

Swept(notifiers) == SelectSeq(notifiers, LAMBDA e : e.alive)

ClashesWithTable(var) ==
    \E i \in DOMAIN cur.pre.variables :
        var.id = i \/ var.key = cur.pre.variables[i].key

TableAndFingerprintKept ==
    /\ variables = cur.pre.variables
    /\ current_fingerprint = cur.pre.fingerprint

UpdateItemFails(it) ==
    \/ it.id \notin DOMAIN cur.pre.variables
    \/ it.value.t # cur.pre.variables[it.id].value.t

\* C8: an UpdateStates with an item that names an unknown id or carries a
\* value of another type than the stored one returns an error, changes no
\* variable of the table, the ones named before the failing item included,
\* and publishes no event.
C8_UpdateAllOrNothing ==
    (Handled("update") /\ \E n \in 1 .. Len(cur.arg) : UpdateItemFails(cur.arg[n]))
        => /\ reply \in {"VariableNotFound", "TypeMismatch"}
           /\ variables = cur.pre.variables
           /\ published = <<>>

\* a rejected call whose first item is good and carries a new value, and
\* whose second item fails
C8_Witness ==
    /\ Handled("update")
    /\ Len(cur.arg) = 2
    /\ ~UpdateItemFails(cur.arg[1])
    /\ cur.arg[1].value # cur.pre.variables[cur.arg[1].id].value
    /\ UpdateItemFails(cur.arg[2])
    /\ reply \in {"VariableNotFound", "TypeMismatch"}

\* C9 as claimed: when AddVariables, RemoveVariables or UpdateStates returns
\* an error, whatever the error, the table and the fingerprint are the ones
\* from before the command.
C9_ErrorKeepsTableAndFingerprint ==
    (pc = "loop" /\ cur.kind \in {"add", "remove", "update"} /\ reply # "Ok")
        => TableAndFingerprintKept

\* k is a strict dotted prefix of l
StrictPrefix(k, l) == k \in get_all_parent_paths(l)

\* C10 as claimed: the ids of the table are distinct, its keys are distinct
\* and no key is a strict dotted prefix of another.
C10_TableIsValidCatalogue ==
    /\ \A i \in DOMAIN variables : variables[i].id = i
    /\ \A i, j \in DOMAIN variables :
          i # j => /\ variables[i].key # variables[j].key
                   /\ ~StrictPrefix(variables[i].key, variables[j].key)

\* C11: an UpdateStates, accepted or rejected, leaves the catalogue as it
\* was: the table holds the same ids, every variable keeps its key, access
\* type, id, experimental flag and data type, and the fingerprint of the
\* worker stays the one from before, which is the hash of the table.
C11_UpdateKeepsCatalogue ==
    Handled("update")
        => /\ DOMAIN variables = DOMAIN cur.pre.variables
           /\ \A i \in DOMAIN variables :
                 HashedFields(variables[i]) = HashedFields(cur.pre.variables[i])
           /\ current_fingerprint = cur.pre.fingerprint
           /\ current_fingerprint = calc_variables_hash(variables)

\* an accepted UpdateStates that gave a variable a new payload
C11_Witness ==
    /\ Handled("update")
    /\ reply = "Ok"
    /\ \E i \in DOMAIN variables : variables[i].value # cur.pre.variables[i].value

\* C12 as claimed: the event for the added variables is published only by
\* an AddVariables that the registry acknowledged, and that event and the
\* events of the later commands carry the fingerprint of the catalogue as
\* it is since the addition, not the one from before.
C12_EventsCarryNewFingerprint ==
    /\ (cur.kind = "add" /\ published # <<>> /\ pc = "loop")
           => /\ reply = "Ok"
              /\ published[1].kind = "vars_changed"
              /\ published[1].fingerprint = current_fingerprint
              /\ published[1].fingerprint # cur.pre.fingerprint
    /\ (Handled("update") /\ published # <<>>)
           => published[1].fingerprint = current_fingerprint

\* C13: the worker enters Running only in the step that ends the wait of a
\* registration handshake with an event of the registry whose definition
\* state is Ok; the worker reached that wait by subscribing to the subject
\* of the registry and publishing its catalogue in the same handshake.
C13_RunningOnlyAfterOk ==
    [][(state' = "Running" /\ state # "Running")
          => /\ pc = "ack"
             /\ cur.kind = "registering"
             /\ published = <<DefinitionMsg(variables, current_fingerprint)>>
             /\ cur'.ack = "Ok"]_vars

\* the worker has just entered Running on an Ok answer of the registry
C13_Witness ==
    /\ pc = "loop"
    /\ cur.kind = "registering"
    /\ cur.ack = "Ok"
    /\ state = "Running"

\* the task of the worker ended because a registration failed
RegistrationCrashed == pc = "crashed" /\ cur.kind \in {"registering", "register"}

\* C14: once the task of the worker has ended because a registration
\* failed, no call returns anything but ProviderThreadCrashed, a call whose
\* command was queued when the task ended can return, and so can a call
\* made on a handle afterwards.
C14_CallsFailAfterCrash ==
    RegistrationCrashed
        => /\ reply \in {NoReply, "ProviderThreadCrashed"}
           /\ pending > 0 => ENABLED QueuedCallEnds
           /\ handle = "provider" => ENABLED LateCall

\* the registration failed while a handle existed and a command was queued
C14_Witness ==
    /\ RegistrationCrashed
    /\ handle = "provider"
    /\ pending > 0

\* C15: a call reads one version of the cached catalogue; in particular
\* get_variable_definition returns a definition of the key it was asked for.
C15_DefinitionOfRequestedKey ==
    (ret # None /\ ret[1].op = "get_variable_definition" /\ ret[1].result = "Ok")
        => ret[1].value[1].key = ret[1].arg[1].key

\* the event loop takes the event at the head of its stream
EventApplied ==
    /\ definition_events # <<>>
    /\ definition_events' = Tail(definition_events)

\* the cache holds exactly the catalogue of the definition d
CacheHolds(d, fingerprint, defs, mapping) ==
    LET items == d.variable_definitions
    IN  /\ fingerprint = Some(d.fingerprint)
        /\ DOMAIN defs = IdsOf(items)
        /\ \A n \in 1 .. Len(items) : defs[items[n].id] = items[n]
        /\ DOMAIN mapping = { key_hash(items[n].key) : n \in 1 .. Len(items) }
        /\ \A n \in 1 .. Len(items) : mapping[key_hash(items[n].key)] = items[n].id

\* C16: when the event loop applies a definition-changed event, a definition
\* in state Ok replaces the fingerprint, the definitions and the key-to-id
\* mapping by those of the event; a definition in another state, or an
\* event without a definition, sets the fingerprint to None and leaves the
\* definitions and the mapping as they were.
C16_EventReplacesOrClears ==
    [][(EventApplied /\ Head(definition_events).decodes)
          => LET d == Head(definition_events).provider_definition
             IN  IF d # None /\ d[1].state = "Ok"
                 THEN CacheHolds(d[1], cur_fingerprint', cur_variable_defs',
                                 var_mapping')
                 ELSE /\ cur_fingerprint' = None
                      /\ cur_variable_defs' = cur_variable_defs
                      /\ var_mapping' = var_mapping]_vars

\* the provider went away or its definition was not Ok: the fingerprint is
\* gone and the catalogue that was cached is still there
C16_Witness ==
    /\ cur_fingerprint = None
    /\ DOMAIN cur_variable_defs # {}
    /\ DOMAIN var_mapping # {}
    /\ definition_events = <<>>

\* a call of read_variables or of write_variables begins
CallBegins ==
    /\ call = None
    /\ \/ call' # None /\ call'[1].op \in {"read_variables", "write_variables"}
       \/ /\ call' = None
          /\ ret' # ret
          /\ ret'[1].op \in {"read_variables", "write_variables"}

\* the call ends in this step with ProviderOfflineOrInvalid
EndsOffline ==
    /\ call' = None
    /\ ret' # None
    /\ ret'[1].result = "ProviderOfflineOrInvalid"

\* C17: read_variables and write_variables called while the cached
\* fingerprint is None return ProviderOfflineOrInvalid and send nothing to
\* the broker; write_variables also does so when it finds the fingerprint
\* None at one of its later checks.
C17_OfflineCallsSendNothing ==
    [][cur_fingerprint = None
          => /\ CallBegins => (EndsOffline /\ sent_to_broker' = None)
             /\ (/\ call # None
                 /\ call' # call
                 /\ call[1].at \in {"check_online", "unchecked"})
                    => (EndsOffline /\ sent_to_broker' = None)]_vars

\* a call made while the provider is offline has returned
C17_Witness ==
    /\ cur_fingerprint = None
    /\ ret # None
    /\ ret[1].op \in {"read_variables", "write_variables"}
    /\ ret[1].result = "ProviderOfflineOrInvalid"
    /\ sent_to_broker = None

ValidationErrors ==
    {"InvalidVariableKey", "InvalidVariableId", "NotPermitted", "InvalidValueType"}

\* the call ends in this step with a validation error, nothing was sent
EndsInvalid ==
    /\ call' = None
    /\ ret' # None
    /\ ret'[1].result \in ValidationErrors
    /\ sent_to_broker' = None

\* a step of a write_variables call that is under way
WriteStep == call # None /\ call' # call /\ call[1].op = "write_variables"

\* C18: write_variables publishes nothing when validation fails.  A key
\* the mapping does not know ends the call; so does an item of the command
\* whose id is unknown, whose variable is not read-write or whose value has
\* another type than the variable, whatever the other items are; and a
\* command is published by the last step only, after every check passed.
C18_InvalidWritePublishesNothing ==
    [][WriteStep
          => LET c == call[1]
             IN  /\ (/\ c.at = "ids"
                     /\ key_hash(KeysOf(c)[Len(c.ids) + 1]) \notin DOMAIN var_mapping)
                        => EndsInvalid
                 /\ (/\ c.at = "check_write_command"
                     /\ \E n \in 1 .. Len(c.arg) :
                           CheckItem(cur_variable_defs, CommandItems(c)[n]) # "Ok")
                        => EndsInvalid
                 /\ sent_to_broker' # None => c.at = "unchecked"]_vars

\* a write of two pairs was refused for the second, the first being valid
C18_Witness ==
    /\ ret # None
    /\ ret[1].op = "write_variables"
    /\ ret[1].result \in {"NotPermitted", "InvalidValueType"}
    /\ Len(ret[1].arg) = 2
    /\ ret[1].arg[1] = [key |-> <<"c">>, value |-> [t |-> "Int64", v |-> MaxVal]]
    /\ ret[1].arg[2].key = <<"a">>
    /\ sent_to_broker = None

\* the stream is about to yield items for an event under a filter list
YieldsFiltered ==
    /\ sub_pc = "active"
    /\ variable_events # <<>>
    /\ filter_list # None
    /\ Yielded # None

\* C19: every item the filtered stream yields belongs to a variable whose
\* key, in the catalogue the event was published under, is in the filter
\* list.
C19_YieldedKeysInFilter ==
    YieldsFiltered
        => \A n \in 1 .. Len(Yielded[1]) :
              Head(variable_events).catalogue[Yielded[1][n].id].key \in filter_list[1]

\* C20: once the cache has applied an Ok catalogue whose fingerprint is not
\* the one the stream saw last, the next event is filtered with the ids the
\* new mapping gives the keys of the filter list.
C20_FilterFollowsNewMapping ==
    (/\ sub_pc = "active"
     /\ variable_events # <<>>
     /\ filter_list # None
     /\ Some(calc_variables_hash(cur_variable_defs)) # last_fp)
        => RebuiltFilter.filter_set = Some(build_filter_set(filter_list[1], var_mapping))

\* C21: variable_id_from_key returns an id only if the cached definition
\* with that id has exactly the key asked for; a key that is in no
\* catalogue and shares its hash with a catalogue key is unknown.
C21_IdOnlyForExactKey ==
    \A k \in CallKeys :
        variable_id_from_key(k).result = "Ok"
            => /\ variable_id_from_key(k).id \in DOMAIN cur_variable_defs
               /\ cur_variable_defs[variable_id_from_key(k).id].key = k

\* C23: wait_until_variable_keys_are_available returns once the catalogue
\* of the provider has all the requested keys: a call that waits while
\* nothing is left to receive waits for a key the registered catalogue
\* lacks.
WaitsForKeys ==
    /\ call # None
    /\ call[1].op = "wait_until_variable_keys_are_available"
    /\ call[1].at = "events"

C23_WaitsOnlyForMissingKeys ==
    (/\ WaitsForKeys
     /\ provider_def_evt_stream = <<>>
     /\ definition_events = <<>>
     /\ Registered)
        => ~all_keys_available(call[1].arg,
                               { RegisteredCatalogue[i] : i \in DOMAIN RegisteredCatalogue })

Orders(n) == { f \in [1 .. n -> 1 .. n] : \A i, j \in 1 .. n : f[i] = f[j] => i = j }

\* C24: the validator accepts a list of definitions if and only if the ids
\* are pairwise distinct, the keys are pairwise distinct, no key is a
\* strict dotted prefix of another key and every definition is valid by
\* itself; the list in any other order gets the same verdict.
C24_ValidatorAcceptsIff ==
    (cur.kind = "validate" /\ reply # NoReply)
        => LET defs == cur.arg
               n == Len(defs)
           IN  /\ reply = "Ok"
                   <=> /\ \A i, j \in 1 .. n : i # j => defs[i].id # defs[j].id
                       /\ \A i, j \in 1 .. n : i # j => defs[i].key # defs[j].key
                       /\ \A i, j \in 1 .. n :
                             ~(/\ Len(defs[i].key) < Len(defs[j].key)
                               /\ SubSeq(defs[j].key, 1, Len(defs[i].key)) = defs[i].key)
                       /\ \A i \in 1 .. n : validate_definition(defs[i]) = "Ok"
               /\ \A f \in Orders(n) :
                     (validate([i \in 1 .. n |-> defs[f[i]]]) = "Ok") <=> (reply = "Ok")

\* a list is rejected for nothing but a key below a key that comes after it
C24_Witness ==
    /\ cur.kind = "validate"
    /\ reply = "AddToLeafNode"
    /\ \E i, j \in 1 .. Len(cur.arg) :
          /\ i < j
          /\ cur.arg[j].key \in get_all_parent_paths(cur.arg[i].key)

\* C25: the reply to a read query holds exactly the variables of the table
\* whose id is in the id list of the request, each once, or all variables
\* when the request has no id list; ids that are not in the table are
\* passed over; the reply is the one message published and carries the
\* current fingerprint.
C25_ReadReplyIsRequestedVariables ==
    (pc = "loop" /\ cur.kind = "query" /\ cur.arg.outcome = "replied")
        => LET msg == cur.arg.msg
               m == cur.pre.variables
               asked == IF msg.has_ids
                        THEN { msg.ids[n] : n \in 1 .. Len(msg.ids) } \cap DOMAIN m
                        ELSE DOMAIN m
           IN  /\ Len(published) = 1
               /\ published[1].kind = "read_response"
               /\ published[1].fingerprint = cur.pre.fingerprint
               /\ Len(published[1].items) = Cardinality(asked)
               /\ { published[1].items[n] : n \in 1 .. Len(published[1].items) }
                      = { m[i] : i \in asked }
               /\ variables = m

\* a request that names an id of the table twice and an id that is not in
\* the table was answered
C25_Witness ==
    /\ pc = "loop"
    /\ cur.kind = "query"
    /\ cur.arg.outcome = "replied"
    /\ cur.arg.msg.has_ids
    /\ Len(cur.arg.msg.ids) = 2
    /\ cur.arg.msg.ids[1] = cur.arg.msg.ids[2]
    /\ cur.arg.msg.ids[1] \in DOMAIN variables
    /\ Cardinality(DOMAIN variables) = 2
    /\ Len(published[1].items) = 1

\* C26: for every builder of a subject that names a provider and every
\* provider id that is not empty, the provider id extracted from the built
\* subject is the provider id the subject was built for.
C26_ExtractReturnsProviderId ==
    (/\ ret # None
     /\ ret[1].op \in SubjectBuilders
     /\ ret[1].arg # <<>>)
        => /\ ret[1].result = "Ok"
           /\ ret[1].value = Some(ret[1].arg)

\* the worker has published its whole table as a definition, stamped with
\* the fingerprint it holds, which is the hash of the table
PublishedCatalogue ==
    /\ Len(published') = 1
    /\ published'[1].kind = "definition"
    /\ published'[1].items = Values(variables')
    /\ published'[1].fingerprint = current_fingerprint'
    /\ current_fingerprint' = calc_variables_hash(variables')
    /\ variables' = variables

\* the broker refused the subscription or the message: the call that made
\* the handshake fails
HandshakeFailed ==
    /\ published' = <<>>
    /\ pc' = "crashed" \/ (pc' = "loop" /\ reply' = "UpdateProviderDefinition")

\* C27: a registry-up event that reaches the worker while it is Running or
\* while it waits for the answer of the registry makes the worker publish
\* its whole current catalogue with the current fingerprint, unless the
\* broker refuses; the worker then waits for the answer of the registry,
\* in a handshake under way with the state and the command it had.
C27_RegistryUpRepublishes ==
    [][/\ RegistryUp => (PublishedCatalogue /\ pc' = "ack") \/ HandshakeFailed
       /\ RegistryUpWhileWaiting
             => \/ /\ PublishedCatalogue
                   /\ pc' = "ack"
                   /\ state' = state
                   /\ cur' = cur
                \/ HandshakeFailed]_vars

\* a registry-up event reached the Running worker with variables in its
\* table: the catalogue is published and the worker waits
C27_Witness ==
    /\ pc = "ack"
    /\ cur.kind = "register"
    /\ state = "Running"
    /\ variables # NoVariables
    /\ published = <<DefinitionMsg(variables, current_fingerprint)>>

\* C28: the worker starts a handshake from Running only for a registry
\* state event whose state is Running; an event with the state Stopping or
\* Unspecified makes it publish nothing and start no handshake.
C28_RegisterOnlyWhenRegistryRuns ==
    (pc = "ack" /\ cur.kind = "register") => cur.arg = "Running"

\* a broker event was handled in this step
BrokerEvent(msg) ==
    /\ pc # "loop"
    /\ pc' = "loop"
    /\ cur'.kind = "nats_event"
    /\ cur'.arg = msg

\* C29: the state of the worker changes in three ways only: a Connected
\* event of the broker moves it to Registering, a Disconnected event moves
\* it to Connecting, both from any state, and a handshake that ends well
\* moves it from Registering to Running; any other event of the broker
\* leaves the state as it is.
C29_StateChanges ==
    [][pc # "builder"
          => /\ state' # state
                  => \/ BrokerEvent("Connected") /\ state' = "Registering"
                     \/ BrokerEvent("Disconnected") /\ state' = "Connecting"
                     \/ /\ state = "Registering"
                        /\ state' = "Running"
                        /\ cur.kind = "registering"
                        /\ cur'.ack = "Ok"
             /\ BrokerEvent("Connected") => state' = "Registering"
             /\ BrokerEvent("Disconnected") => state' = "Connecting"
             /\ \A msg \in NatsEvents \ {"Connected", "Disconnected"} :
                   BrokerEvent(msg) => state' = state]_vars

\* the broker disconnected after the worker had been Running
C29_Witness ==
    /\ pc = "loop"
    /\ cur.kind = "nats_event"
    /\ cur.arg = "Disconnected"
    /\ state = "Connecting"
    /\ handle = "provider"

\* The channel of the state notifications holds one value: a receiver that
\* has not taken the last state sent gets that state and none before it.
\* The caller of the registration can see the worker Running while Running
\* is the last state the worker entered.
RunningNotificationPending == handle = "new" /\ state = "Running"

\* C30: a registration that waits for success returns a handle once the
\* worker has entered Running, whatever the worker does before the caller
\* looks: the notification of Running stays there for the caller until the
\* caller has taken it or has given up.
C30_RunningIsNotMissed ==
    [][RunningNotificationPending
          => (RunningNotificationPending' \/ handle' # "new")]_vars

----------------------------------------------------------------------------
\* the ids a RemoveVariables command names
Named(list) == { list[n].id : n \in 1 .. Len(list) }

\* C31: RemoveVariables removes exactly the variables whose ids it names and
\* leaves every other variable as it was, named ids that are not in the
\* table are ignored, the catalogue it publishes is the remaining table with
\* the fingerprint recomputed from it, and it publishes no
\* VariablesChangedEvent, neither before nor after the registry answered.
C31_RemoveRepublishesCatalogue ==
    cur.kind = "remove"
        => /\ DOMAIN variables = (DOMAIN cur.pre.variables) \ Named(cur.arg)
           /\ \A i \in DOMAIN variables : variables[i] = cur.pre.variables[i]
           /\ current_fingerprint = calc_variables_hash(variables)
           /\ \A n \in 1 .. Len(published) :
                 /\ published[n].kind = "definition"
                 /\ published[n].fingerprint = current_fingerprint
                 /\ published[n].items = Values(variables)
           /\ pc = "ack" => Len(published) = 1
           /\ pc = "loop" => published = <<>>

\* a removal the registry acknowledged that named a variable of the table
\* after an id that is in no table, and left a variable behind
C31_Witness ==
    /\ Handled("remove")
    /\ reply = "Ok"
    /\ Len(cur.arg) = 2
    /\ cur.arg[1].id \notin DOMAIN cur.pre.variables
    /\ cur.arg[2].id \in DOMAIN cur.pre.variables
    /\ variables # NoVariables
    /\ current_fingerprint # cur.pre.fingerprint

----------------------------------------------------------------------------
\* an id of the Subscribe is not in the table the command met
UnknownNamed ==
    \E n \in 1 .. Len(cur.arg) : cur.arg[n] \notin DOMAIN cur.pre.variables

\* the ids bound by the entries of a subscriber list
BoundIds(notifiers) == UNION { notifiers[n].ids : n \in 1 .. Len(notifiers) }

\* C32: a Subscribe that names an id which is not in the table, or an id
\* held by a subscriber whose receiving end is open, is rejected as a whole:
\* it returns an error, the subscriber list gets no new entry (it is the old
\* list without its closed entries) and no named id is bound that was not
\* bound before; and a Subscribe that returns an error is one of these.
C32_RejectedSubscribeBindsNothing ==
    Handled("subscribe") =>
        /\ (UnknownNamed \/ LiveBound)
              <=> reply \in {"VariableNotFound", "AlreadySubscribed"}
        /\ (UnknownNamed \/ LiveBound)
              => /\ write_event_notiers = Swept(cur.pre.notifiers)
                 /\ BoundIds(write_event_notiers) \subseteq BoundIds(cur.pre.notifiers)
        /\ reply \in {"Ok", "VariableNotFound", "AlreadySubscribed"}

\* a rejected Subscribe of two ids of which the first could have been bound:
\* it is in the table and no subscriber holds it
C32_Witness ==
    /\ Handled("subscribe")
    /\ reply \in {"VariableNotFound", "AlreadySubscribed"}
    /\ Len(cur.arg) = 2
    /\ cur.arg[1] \in DOMAIN cur.pre.variables
    /\ cur.arg[1] \notin BoundIds(cur.pre.notifiers)
    /\ cur.arg[1] \notin BoundIds(write_event_notiers)
    /\ cur.pre.notifiers # <<>>

----------------------------------------------------------------------------
\* the worker has just taken a read query or a write command that does not
\* decode
IgnoredByWorker ==
    \/ Handled("write_undecodable")
    \/ Handled("query") /\ cur.arg.outcome = "undecodable"

\* the worker ignored the payload and goes on to the head of its loop
WorkerUntouched ==
    /\ state = "Running"
    /\ variables = cur.pre.variables
    /\ current_fingerprint = cur.pre.fingerprint
    /\ write_event_notiers = cur.pre.notifiers
    /\ published = <<>>
    /\ delivered = <<>>
    /\ ENABLED RunLoop

\* the worker in its Running select takes queries and commands
WorkerListens == Running => (ENABLED Query /\ ENABLED HandleWrite)

\* the stream of variable events: nothing for a payload that does not
\* decode, a list for every other, and the closure is never stuck
StreamGoesOn ==
    (sub_pc = "active" /\ variable_events # <<>>)
        => /\ ENABLED StreamNext
           /\ ~Head(variable_events).decodes <=> Yielded = None

\* the event loop of the cache takes whatever event is waiting
EventLoopGoesOn ==
    (Connected /\ definition_events # <<>>) => ENABLED internal_event_loop

\* one turn of the event loop: an undecodable event leaves the cache as it
\* was, a decodable one is applied whatever came before it
EventLoopTurn ==
    internal_event_loop =>
        LET event == Head(definition_events)
            d == event.provider_definition
        IN  IF ~event.decodes
            THEN UNCHANGED <<cur_fingerprint, cur_variable_defs, var_mapping>>
            ELSE IF d # None /\ d[1].state = "Ok"
            THEN CacheHolds(d[1], cur_fingerprint', cur_variable_defs', var_mapping')
            ELSE /\ cur_fingerprint' = None
                 /\ UNCHANGED <<cur_variable_defs, var_mapping>>

\* C33: a payload that does not decode changes no state and stops no loop.
\* The event loop leaves the cache unchanged on an undecodable definition
\* event and applies every decodable one; the stream of variable events
\* yields nothing for an undecodable event and a list for every decodable
\* one; the worker ignores an undecodable read query or write command: its
\* table, fingerprint and subscribers are unchanged, nothing is published or
\* delivered, it stays Running and takes the next message.
C33_MalformedPayloadIgnored ==
    /\ [](IgnoredByWorker => WorkerUntouched)
    /\ []WorkerListens
    /\ []StreamGoesOn
    /\ []EventLoopGoesOn
    /\ [][EventLoopTurn]_vars

\* the worker has ignored a write command that does not decode while a
\* subscriber waits for commands
C33_Witness ==
    /\ Handled("write_undecodable")
    /\ \E n \in 1 .. Len(write_event_notiers) : write_event_notiers[n].alive
    /\ state = "Running"

----------------------------------------------------------------------------
\* the validator has given its verdict on the list cur.arg
Validated == cur.kind = "validate" /\ reply # NoReply

\* definition i of the list is invalid by itself
InvalidAt(i) == validate_definition(cur.arg[i]) # "Ok"

\* definition i of the list has the id, the key, of a definition before it
RepeatsIdAt(i) == \E j \in 1 .. (i - 1) : cur.arg[j].id = cur.arg[i].id
RepeatsKeyAt(i) == \E j \in 1 .. (i - 1) : cur.arg[j].key = cur.arg[i].key

\* the key of definition i lies below the key of a definition of the list
BelowLeafAt(i) ==
    \E j \in 1 .. Len(cur.arg) :
        /\ Len(cur.arg[j].key) < Len(cur.arg[i].key)
        /\ SubSeq(cur.arg[i].key, 1, Len(cur.arg[j].key)) = cur.arg[j].key

\* no definition in front of definition i breaks one of the first three rules
CleanBefore(i) ==
    \A j \in 1 .. (i - 1) : ~InvalidAt(j) /\ ~RepeatsIdAt(j) /\ ~RepeatsKeyAt(j)

\* C34, amended: the validator reports the violation of the first definition
\* of the list that is invalid by itself or repeats the id or the key of a
\* definition before it, and for that definition the invalid definition
\* before the duplicate id and the duplicate id before the duplicate key; a
\* leaf/folder collision is reported only for a list in which no definition
\* breaks one of these three rules.
C34_FirstFailingDefinitionDecides ==
    Validated =>
        LET n == Len(cur.arg)
        IN  /\ reply = "InvalidVariableDefinition"
                <=> \E i \in 1 .. n : CleanBefore(i) /\ InvalidAt(i)
            /\ reply = "DuplicateId"
                <=> \E i \in 1 .. n : CleanBefore(i) /\ ~InvalidAt(i) /\ RepeatsIdAt(i)
            /\ reply = "DuplicatePath"
                <=> \E i \in 1 .. n : /\ CleanBefore(i)
                                      /\ ~InvalidAt(i) /\ ~RepeatsIdAt(i)
                                      /\ RepeatsKeyAt(i)
            /\ reply = "AddToLeafNode"
                <=> /\ CleanBefore(n + 1)
                    /\ \E i \in 1 .. n : BelowLeafAt(i)
            /\ reply = "Ok"
                <=> /\ CleanBefore(n + 1)
                    /\ \A i \in 1 .. n : ~BelowLeafAt(i)

\* a list with a duplicate id in front of an invalid definition: the
\* duplicate id is reported
C34_Witness ==
    /\ Validated
    /\ reply = "DuplicateId"
    /\ \E i, j \in 1 .. Len(cur.arg) : i < j /\ RepeatsIdAt(i) /\ InvalidAt(j)

\* C34 as claimed: an invalid definition anywhere in the list is reported
\* before any duplicate id, a duplicate id before any duplicate key, and a
\* duplicate key before any leaf/folder collision.
C34_AsClaimed ==
    Validated =>
        LET n == Len(cur.arg)
            SomeInvalid == \E i \in 1 .. n : InvalidAt(i)
            SomeId == \E i \in 1 .. n : RepeatsIdAt(i)
            SomeKey == \E i \in 1 .. n : RepeatsKeyAt(i)
        IN  /\ SomeInvalid => reply = "InvalidVariableDefinition"
            /\ (~SomeInvalid /\ SomeId) => reply = "DuplicateId"
            /\ (~SomeInvalid /\ ~SomeId /\ SomeKey) => reply = "DuplicatePath"

----------------------------------------------------------------------------
\* C35 as claimed: every item of a write command that is delivered to a
\* write subscriber carries a value whose type is the declared data type of
\* the variable it targets.
C35_DeliveredValueHasDeclaredType ==
    Handled("write")
        => \A n \in 1 .. Len(delivered) :
              \A k \in 1 .. Len(delivered[n]) :
                 delivered[n][k].value.t
                     = cur.pre.variables[delivered[n][k].id].value.t

----------------------------------------------------------------------------
\* the worker waits in the send of a batch to a subscriber
Sending == pc = "send"

\* C36 as claimed: the worker that waits in the send of a write command to a
\* subscriber always comes back to the select of its command loop, also
\* when the channel of the subscriber is full and the task that owns the
\* receiver waits for the answer to a call.
C36_DispatchReturnsToLoop == Sending ~> (pc = "select")

----------------------------------------------------------------------------
\* C37 as claimed, in the states where nothing is left to wait for: once the
\* connection is constructed and no definition event waits for the event
\* loop, the cache holds the catalogue and the fingerprint of the Ok
\* definition the registry holds, also when the registry changed it while
\* the constructor ran.
C37_CacheCatchesUp ==
    (Constructed /\ definition_events = <<>> /\ IsOkDefinition(registry_definition))
        => CacheHolds(registry_definition.provider_definition[1],
                      cur_fingerprint, cur_variable_defs, var_mapping)

----------------------------------------------------------------------------
\* the keyed write_variables has published a command
WritePublished ==
    /\ ret # None
    /\ ret[1].op = "write_variables"
    /\ sent_to_broker # None

\* the catalogue a fingerprint identifies
CatalogueOf(fingerprint) ==
    CHOOSE m \in WritableCatalogues : calc_variables_hash(m) = fingerprint

\* C38 as claimed: every command the keyed write_variables publishes names,
\* for each key of the call, the id that key has in the catalogue whose
\* fingerprint the command carries, however the cached catalogue changed
\* while the call ran.
C38_IdsFromCatalogueOfFingerprint ==
    WritePublished =>
        LET msg == sent_to_broker[1]
            m == CatalogueOf(msg.fingerprint)
        IN  \A n \in 1 .. Len(msg.items) :
               /\ msg.items[n].id \in DOMAIN m
               /\ m[msg.items[n].id].key = ret[1].arg[n].key

\* a handshake ended with success, by an Ok event of the registry
EndedOk ==
    /\ pc = "loop"
    /\ cur.kind \in {"remove", "register"}
    /\ cur.ack = "Ok"

\* C39: a handshake reports success only for an acknowledgement of the
\* catalogue it published: the Ok event that ended it is the answer of the
\* registry to a publication of the current catalogue, never the answer to
\* a publication of an earlier handshake for another catalogue.
C39_AckIsOfPublishedCatalogue ==
    EndedOk => ret.fingerprint = current_fingerprint


\* C40: every id in the id-set of a write subscriber whose receiver still
\* lives is the id of a variable of the current table: once remove_variables
\* took a variable out, no subscriber stays bound to its id.
C40_SubscribersBoundToTableIds ==
    \A n \in 1 .. Len(write_event_notiers) :
        write_event_notiers[n].alive =>
            write_event_notiers[n].ids \subseteq DOMAIN variables

====
